---------------------------- MODULE RefundCopies ----------------------------
(***************************************************************************)
(* The copies that the workers of RefundFlow act on: every copy of the     *)
(* parent or of a refund is older than the row or equal to it, so that a   *)
(* version check that passes compares equal rows; and a worker's answer is *)
(* true at the gateway. Each step moves at most one worker and keeps this. *)
(***************************************************************************)
EXTENDS RefundFlow, TLAPS

Closed == {"REFUNDED", "REFUND_FAILED"}

RefundRow ==
    [status : {"none"} \cup Outstanding \cup Closed, amount : Nat,
     reason : {"request", "cancel_resolution"}, attempts : Nat, version : Nat]

Work ==
    [op : {"idle", "initiate", "resolve", "process", "direct", "retry", "webhook"},
     pc : {"idle", "start", "next", "load", "fill", "loaded", "call", "answered"},
     id : Refunds \cup {NoRow}, rf : RefundRow, snap : Transaction \cup {NoRow},
     answer : {"none", "processing", "completed", "failed", "unknown"}, todo : SUBSET Refunds]

GatewayRow == [status : {"none", "pending", "succeeded", "failed"}, times : Nat]

RType ==
    /\ parent \in Transaction
    /\ cache \in Transaction \cup {NoRow}
    /\ refunds \in [Refunds -> RefundRow]
    /\ evt \in [Refunds -> [status : {"none", "pending", "published", "dead"}, failures : Nat]]
    /\ old \in SUBSET Refunds
    /\ gw \in [Refunds -> GatewayRow]
    /\ hook \in {"off", "quiet", "sent", "recorded"}
    /\ proc \in [Workers -> Work]
    /\ faults \in Nat

(* A copy of a row, of the parent or of a refund, is older than the row, or *)
(* equal to it.                                                             *)
AgreesWith(copy, r) == copy.version <= r.version /\ (copy.version = r.version => copy = r)

Carrying == {"load", "fill", "loaded", "call", "answered"}

WorkOK(w) ==
    /\ proc[w].pc \in {"fill", "loaded", "call", "answered"} =>
           proc[w].snap \in Transaction /\ AgreesWith(proc[w].snap, parent)
    /\ proc[w].pc \in {"load", "call", "answered"} => proc[w].op \in Drivers
    /\ proc[w].op \in {"initiate", "resolve"} =>
           /\ proc[w].pc \in {"fill", "loaded"}
           /\ proc[w].id \in Refunds /\ proc[w].id # NoRow /\ refunds[proc[w].id].status = "none"
           /\ \A v \in Workers : proc[v].id = proc[w].id => v = w
    /\ proc[w].op \in Drivers /\ proc[w].pc # "next" =>
           proc[w].id \in Refunds /\ refunds[proc[w].id].status # "none"
    /\ proc[w].op \in Drivers /\ proc[w].pc \in Carrying =>
           proc[w].rf.status \in Outstanding /\ AgreesWith(proc[w].rf, refunds[proc[w].id])
    /\ proc[w].op = "webhook" => hook \in {"sent", "recorded"}
    /\ proc[w].pc = "answered" =>
           /\ proc[w].answer = "completed" => gw[proc[w].id].times > 0
           /\ proc[w].answer = "failed" /\ KeyedRefunds => gw[proc[w].id].status = "failed"

(* A refund and what the gateway holds of it.                               *)
RefundOK(r) ==
    /\ refunds[r].status = "none" => refunds[r].version = 0 /\ gw[r] = [status |-> "none", times |-> 0]
    /\ gw[r].status = "succeeded" => gw[r].times > 0
    /\ KeyedRefunds /\ gw[r].status # "succeeded" => gw[r].times = 0
    /\ refunds[r].status = "REFUNDED" => gw[r].times > 0
    /\ refunds[r].status = "REFUND_FAILED" /\ KeyedRefunds => gw[r].status = "failed"

OutstandingPending ==
    (\E r \in Refunds : refunds[r].status \in Outstanding) =>
        parent.status = "REFUND_PENDING" \/ (hook = "recorded" /\ parent.status = "REFUNDED")

-----------------------------------------------------------------------------
(* Types. *)

(* The types of the constants that refunds and workers start from.           *)
LEMMA IdleTypes ==
    /\ NoRefund \in RefundRow
    /\ Idle \in Work
    /\ Idle.op = "idle" /\ Idle.pc = "idle" /\ Idle.id = NoRow /\ Idle.rf = NoRefund
    /\ NoRefund.status = "none"
<1>1. NoRefund \in RefundRow /\ NoRefund.status = "none"
  BY DEF NoRefund, RefundRow
<1>2. QED
  BY <1>1 DEF Idle, Work

(* What a worker that turns to something else carries.                      *)
LEMMA Becomes ==
    ASSUME RType, NEW w \in Workers, NEW p \in Work, Become(w, p)
    PROVE  /\ proc' \in [Workers -> Work]
           /\ proc'[w] = p
           /\ \A v \in Workers : v # w => proc'[v] = proc[v]
BY DEF RType, Become

(* A worker that goes to its next statement.                                 *)
LEMMA Gotos ==
    ASSUME RType, NEW w \in Workers, NEW pc, Goto(w, pc),
           pc \in {"idle", "start", "next", "load", "fill", "loaded", "call", "answered"}
    PROVE  \E p \in Work : /\ Become(w, p)
                           /\ p = [proc[w] EXCEPT !.pc = pc]
<1> DEFINE p == [proc[w] EXCEPT !.pc = pc]
<1>1. proc \in [Workers -> Work] /\ proc[w] \in Work
  BY DEF RType
<1>2. p \in Work
  BY <1>1 DEF Work
<1>3. proc' = [proc EXCEPT ![w] = p]
  BY <1>1 DEF Goto
<1>4. QED
  BY Zenon, <1>2, <1>3 DEF Become

(* The copy GetByID gives a worker is the cache's or the row.               *)
LEMMA GetByIDWork ==
    ASSUME RType, NEW p \in Work
    PROVE  /\ GetByID(p) \in Work
           /\ GetByID(p).op = p.op /\ GetByID(p).id = p.id /\ GetByID(p).rf = p.rf
           /\ GetByID(p).answer = p.answer /\ GetByID(p).todo = p.todo
           /\ GetByID(p).pc \in {"fill", "loaded"}
           /\ GetByID(p).snap \in Transaction
           /\ GetByID(p).snap = parent \/ (cache # NoRow /\ GetByID(p).snap = cache)
<1>1. parent \in Transaction /\ cache \in Transaction \cup {NoRow}
  BY DEF RType
<1>2. CASE cache # NoRow
  <2>1. GetByID(p) = [p EXCEPT !.snap = cache, !.pc = "loaded"]
    BY <1>2 DEF GetByID
  <2>2. QED
    BY Zenon, <1>1, <1>2, <2>1 DEF Work
<1>3. CASE cache = NoRow
  <2>1. GetByID(p) = [p EXCEPT !.snap = parent, !.pc = "fill"]
    BY <1>3 DEF GetByID
  <2>2. QED
    BY Zenon, <1>1, <2>1 DEF Work
<1>4. QED
  BY <1>2, <1>3

(* The ways a run may end.                                                  *)
Ended(w, p) ==
    \/ p = Idle
    \/ p = [Idle EXCEPT !.op = "retry", !.pc = "next", !.todo = proc[w].todo]

(* A worker that returns rests, or goes on with the reaper's list.           *)
LEMMA Returns ==
    ASSUME RType, NEW w \in Workers, NEW ok \in BOOLEAN, Return(w, ok)
    PROVE  /\ \E p \in Work : Become(w, p) /\ Ended(w, p)
           /\ evt' \in [Refunds -> [status : {"none", "pending", "published", "dead"}, failures : Nat]]
<1> DEFINE more == [Idle EXCEPT !.op = "retry", !.pc = "next", !.todo = proc[w].todo]
           E == [status : {"none", "pending", "published", "dead"}, failures : Nat]
<1>1. Idle \in Work /\ more \in Work
  <2>1. proc[w].todo \in SUBSET Refunds
    BY DEF RType, Work
  <2>2. QED
    BY Zenon, <2>1, IdleTypes DEF Work
<1>2. evt \in [Refunds -> E]
  BY DEF RType
<1>3. CASE proc[w].op = "process"
  <2> DEFINE id == proc[w].id
             n == IF evt[id].status # "pending" THEN evt[id]
                  ELSE IF ok THEN [evt[id] EXCEPT !.status = "published"]
                  ELSE [status   |-> IF evt[id].failures + 1 >= MaxDeliveries THEN "dead" ELSE "pending",
                        failures |-> evt[id].failures + 1]
  <2>1. evt' = [evt EXCEPT ![id] = n] /\ Become(w, Idle)
    BY <1>3 DEF Return
  <2>2. id \in Refunds => n \in E
    BY <1>2
  <2> HIDE DEF n, E, id
  <2>3. evt' \in [Refunds -> E]
    BY Zenon, <1>2, <2>1, <2>2
  <2>4. QED
    BY <1>1, <2>1, <2>3 DEF E, Ended
<1>4. CASE proc[w].op # "process" /\ proc[w].op = "retry" /\ proc[w].todo # {}
  <2>1. Become(w, more) /\ evt' = evt
    BY <1>4 DEF Return
  <2>2. QED
    BY <1>1, <1>2, <2>1 DEF Ended
<1>5. CASE proc[w].op # "process" /\ ~ (proc[w].op = "retry" /\ proc[w].todo # {})
  <2>1. Become(w, Idle) /\ evt' = evt
    BY <1>5 DEF Return
  <2>2. QED
    BY <1>1, <1>2, <2>1 DEF Ended
<1>6. QED
  BY <1>3, <1>4, <1>5

-----------------------------------------------------------------------------
(* What no step takes back. *)

(* The parent's and a refund's version grow with every change, what the     *)
(* gateway has moved stays moved, and a keyed refund it refused stays so.   *)
ParentSteps == parent' = parent \/ parent'.version = parent.version + 1

RefundSteps(w) ==
    \/ refunds' = refunds
    \/ /\ proc[w].id \in Refunds
       /\ \E x \in RefundRow :
             /\ refunds' = [refunds EXCEPT ![proc[w].id] = x]
             /\ x.version = refunds[proc[w].id].version + 1 /\ x.status # "none"

GatewaySteps ==
    \A r \in Refunds :
        /\ gw'[r].times >= gw[r].times
        /\ KeyedRefunds /\ gw[r].status = "failed" => gw'[r].status = "failed"

(* A webhook that was sent stays so until it is recorded.                   *)
HookSteps ==
    /\ hook' \in {"off", "quiet", "sent", "recorded"}
    /\ hook \in {"sent", "recorded"} => hook' \in {"sent", "recorded"}

(* Only one worker moves; a refund it turns to is no other's request.       *)
WorkerMoves(w) ==
    /\ \A v \in Workers : v # w => proc'[v] = proc[v]
    /\ \/ proc'[w].id \in {NoRow, proc[w].id}
       \/ refunds[proc'[w].id].status # "none"
       \/ \A v \in Workers : proc[v].id # proc'[w].id

Copies ==
    /\ RType
    /\ cache # NoRow => AgreesWith(cache, parent)
    /\ \A w \in Workers : WorkOK(w)
    /\ \A r \in Refunds : RefundOK(r)

Moves(w) ==
    /\ RType' /\ ParentSteps /\ RefundSteps(w) /\ GatewaySteps /\ HookSteps /\ WorkerMoves(w)
    /\ WorkOK(w)'
    /\ cache' # NoRow => AgreesWith(cache', parent')

(* A copy that agrees with a row agrees with the row's next version.         *)
LEMMA AgreesKept ==
    ASSUME NEW c, NEW r, NEW s, c.version \in Nat, r.version \in Nat, AgreesWith(c, r),
           s = r \/ s.version = r.version + 1
    PROVE  AgreesWith(c, s)
BY DEF AgreesWith

(* A row agrees with itself.                                                 *)
LEMMA AgreesItself ==
    ASSUME NEW c, c.version \in Nat
    PROVE  AgreesWith(c, c)
BY DEF AgreesWith

(* A worker that does not move keeps what it relies on.                     *)
LEMMA OthersKeep ==
    ASSUME RType, RType', NEW w \in Workers, NEW v \in Workers, v # w, WorkOK(w), WorkOK(v),
           ParentSteps, RefundSteps(w), GatewaySteps, HookSteps, WorkerMoves(w)
    PROVE  WorkOK(v)'
<1>1. proc'[v] = proc[v] /\ proc[v] \in Work
  BY DEF WorkerMoves, RType
<1>2. parent.version \in Nat /\ \A c \in Transaction : c.version \in Nat
  BY DEF RType, Transaction
<1>3. proc[v].pc \in {"fill", "loaded", "call", "answered"} =>
          proc[v].snap \in Transaction /\ AgreesWith(proc[v].snap, parent')
  <2>1. SUFFICES ASSUME proc[v].pc \in {"fill", "loaded", "call", "answered"}
        PROVE  proc[v].snap \in Transaction /\ AgreesWith(proc[v].snap, parent')
    OBVIOUS
  <2>2. proc[v].snap \in Transaction /\ AgreesWith(proc[v].snap, parent)
    BY <2>1 DEF WorkOK
  <2>3. QED
    BY <1>2, <2>2, AgreesKept DEF ParentSteps
<1>4. ASSUME NEW r \in Refunds
      PROVE  /\ refunds'[r] = refunds[r] \/ refunds'[r].version = refunds[r].version + 1
             /\ refunds[r].status # "none" => refunds'[r].status # "none"
             /\ r # proc[w].id => refunds'[r] = refunds[r]
  BY DEF RefundSteps, RType
<1>5. ASSUME proc[v].op \in {"initiate", "resolve"}
      PROVE  /\ proc[v].pc \in {"fill", "loaded"}
             /\ proc[v].id \in Refunds /\ proc[v].id # NoRow /\ refunds'[proc[v].id].status = "none"
             /\ \A u \in Workers : proc'[u].id = proc[v].id => u = v
  <2>1. /\ proc[v].pc \in {"fill", "loaded"}
        /\ proc[v].id \in Refunds /\ proc[v].id # NoRow /\ refunds[proc[v].id].status = "none"
        /\ \A u \in Workers : proc[u].id = proc[v].id => u = v
    BY <1>5 DEF WorkOK
  <2>2. proc[w].id # proc[v].id
    BY <2>1
  <2>3. refunds'[proc[v].id] = refunds[proc[v].id]
    BY <1>4, <2>1, <2>2
  <2>4. proc'[w].id # proc[v].id
    BY <2>1, <2>2 DEF WorkerMoves
  <2>5. QED
    BY <2>1, <2>3, <2>4 DEF WorkerMoves
<1>6. proc[v].op \in Drivers /\ proc[v].pc # "next" =>
          proc[v].id \in Refunds /\ refunds'[proc[v].id].status # "none"
  BY <1>4 DEF WorkOK
<1>7. ASSUME proc[v].op \in Drivers, proc[v].pc \in Carrying
      PROVE  proc[v].rf.status \in Outstanding /\ AgreesWith(proc[v].rf, refunds'[proc[v].id])
  <2>1. proc[v].rf.status \in Outstanding /\ AgreesWith(proc[v].rf, refunds[proc[v].id])
    BY <1>7 DEF WorkOK
  <2>2. proc[v].id \in Refunds
    BY <1>7 DEF WorkOK, Carrying
  <2>3. proc[v].rf.version \in Nat /\ refunds[proc[v].id].version \in Nat
    BY <1>1, <2>2 DEF RType, Work, RefundRow
  <2>4. refunds'[proc[v].id] = refunds[proc[v].id]
        \/ refunds'[proc[v].id].version = refunds[proc[v].id].version + 1
    BY <1>4, <2>2
  <2>5. QED
    BY <2>1, <2>3, <2>4, AgreesKept
<1>8. ASSUME proc[v].pc = "answered"
      PROVE  /\ proc[v].answer = "completed" => gw'[proc[v].id].times > 0
             /\ proc[v].answer = "failed" /\ KeyedRefunds => gw'[proc[v].id].status = "failed"
  <2>1. proc[v].id \in Refunds
    BY <1>8 DEF WorkOK
  <2>2. gw[proc[v].id].times \in Nat /\ gw'[proc[v].id].times \in Nat
    BY <2>1 DEF RType, GatewayRow
  <2>3. /\ proc[v].answer = "completed" => gw[proc[v].id].times > 0
        /\ proc[v].answer = "failed" /\ KeyedRefunds => gw[proc[v].id].status = "failed"
    BY <1>8 DEF WorkOK
  <2>4. QED
    BY <2>1, <2>2, <2>3 DEF GatewaySteps
<1>9. /\ proc[v].pc \in {"load", "call", "answered"} => proc[v].op \in Drivers
      /\ proc[v].op = "webhook" => hook' \in {"sent", "recorded"}
  BY DEF WorkOK, HookSteps
<1>10. QED
  BY <1>1, <1>3, <1>5, <1>6, <1>7, <1>8, <1>9 DEF WorkOK

-----------------------------------------------------------------------------
(* The steps of one worker. *)

EvtType == evt \in [Refunds -> [status : {"none", "pending", "published", "dead"}, failures : Nat]]

(* A worker that ends or goes on to the next stale refund relies on nothing. *)
LEMMA Rests ==
    ASSUME Copies, NEW w \in Workers, NEW p \in Work, Become(w, p),
           p = Idle \/ (p.op = "retry" /\ p.pc = "next"), p.id \in {NoRow, proc[w].id}
    PROVE  /\ proc' \in [Workers -> Work] /\ WorkerMoves(w) /\ WorkOK(w)'
<1>1. /\ proc' \in [Workers -> Work] /\ proc'[w] = p
      /\ \A v \in Workers : v # w => proc'[v] = proc[v]
  BY Becomes DEF Copies
<1>2. WorkerMoves(w)
  BY <1>1 DEF WorkerMoves
<1>3. p.op \notin {"initiate", "resolve", "webhook"} /\ p.pc \notin Carrying
      /\ (p.op \in Drivers => p.pc = "next")
  BY IdleTypes DEF Carrying, Drivers
<1>4. WorkOK(w)'
  BY <1>1, <1>3 DEF WorkOK, Carrying
<1>5. QED
  BY <1>1, <1>2, <1>4

(* A worker at rest has no refund in hand.                                   *)
LEMMA EndedRests ==
    ASSUME RType, NEW w \in Workers, NEW p \in Work, Ended(w, p)
    PROVE  (p = Idle \/ (p.op = "retry" /\ p.pc = "next")) /\ p.id = NoRow
BY Zenon, IdleTypes DEF Ended, Work, Idle

(* The steps that leave the parent, the refunds and the gateway alone.      *)
LEMMA QuietMoves ==
    ASSUME Copies, NEW w \in Workers, proc' \in [Workers -> Work], WorkerMoves(w), WorkOK(w)',
           UNCHANGED <<parent, refunds, gw>>, cache' \in {cache, NoRow},
           EvtType', old' \in SUBSET Refunds, HookSteps, faults' \in Nat
    PROVE  Moves(w)
<1>1. RType /\ RType'
  BY DEF Copies, RType, EvtType, HookSteps
<1>2. ParentSteps /\ RefundSteps(w)
  BY DEF ParentSteps, RefundSteps
<1>3. GatewaySteps
  BY <1>1 DEF GatewaySteps, RType, GatewayRow
<1>4. cache' # NoRow => AgreesWith(cache', parent')
  BY DEF Copies
<1>5. QED
  BY <1>1, <1>2, <1>3, <1>4 DEF Moves

(* A worker that has just read the parent.                                  *)
LEMMA Loads ==
    ASSUME Copies, NEW w \in Workers, NEW q \in Work, Become(w, GetByID(q)),
           UNCHANGED <<parent, refunds, gw>>,
           q.op \in Drivers =>
              /\ q.id = proc[w].id /\ q.id \in Refunds /\ refunds[q.id].status # "none"
              /\ q.rf.status \in Outstanding /\ AgreesWith(q.rf, refunds[q.id]),
           q.op \in {"initiate", "resolve"} =>
              /\ q.id \in Refunds /\ refunds[q.id].status = "none"
              /\ \A v \in Workers : proc[v].id # q.id,
           q.op \in {"initiate", "resolve"} => proc[w] = Idle,
           q.op \notin Drivers \cup {"initiate", "resolve"} => q.id = NoRow,
           q.op = "webhook" => hook' \in {"sent", "recorded"}
    PROVE  proc' \in [Workers -> Work] /\ WorkerMoves(w) /\ WorkOK(w)'
<1> DEFINE p == GetByID(q)
<1>0. RType
  BY DEF Copies
<1>1. /\ p \in Work /\ p.op = q.op /\ p.id = q.id /\ p.rf = q.rf
      /\ p.pc \in {"fill", "loaded"} /\ p.snap \in Transaction
      /\ p.snap = parent \/ (cache # NoRow /\ p.snap = cache)
  BY <1>0, GetByIDWork
<1> HIDE DEF p
<1>2. /\ proc' \in [Workers -> Work] /\ proc'[w] = p
      /\ \A v \in Workers : v # w => proc'[v] = proc[v]
  BY <1>0, <1>1, Becomes DEF p
<1>3. WorkerMoves(w)
  BY <1>1, <1>2 DEF WorkerMoves
<1>4. AgreesWith(p.snap, parent')
  <2>1. parent.version \in Nat
    BY <1>0 DEF RType, Transaction
  <2>2. QED
    BY <1>1, <2>1, AgreesItself DEF Copies
<1>5. p.op \in {"initiate", "resolve"} =>
           /\ p.id \in Refunds /\ p.id # NoRow /\ refunds'[p.id].status = "none"
           /\ \A v \in Workers : proc'[v].id = p.id => v = w
  BY <1>1, <1>2, IdleTypes
<1>6. p.op \in Drivers =>
           /\ p.id \in Refunds /\ refunds'[p.id].status # "none"
           /\ p.rf.status \in Outstanding /\ AgreesWith(p.rf, refunds'[p.id])
  BY <1>1
<1>7. WorkOK(w)'
  BY <1>1, <1>2, <1>4, <1>5, <1>6 DEF WorkOK, Drivers
<1>8. QED
  BY <1>2, <1>3, <1>7

(* The payment is loaded, from the cache or the table.                       *)
LEMMA LoadParentMoves ==
    ASSUME Copies, NEW w \in Workers, LoadParent(w)
    PROVE  Moves(w)
<1>0. RType /\ proc[w] \in Work /\ WorkOK(w)
  BY DEF Copies, RType
<1>1. /\ proc[w].pc = "load" /\ Become(w, GetByID(proc[w]))
      /\ UNCHANGED <<parent, cache, refunds, evt, old, gw, hook, faults>>
  BY DEF LoadParent
<1>2. /\ proc[w].op \in Drivers /\ proc[w].op \notin {"initiate", "resolve", "webhook"}
      /\ proc[w].id \in Refunds /\ refunds[proc[w].id].status # "none"
      /\ proc[w].rf.status \in Outstanding /\ AgreesWith(proc[w].rf, refunds[proc[w].id])
  BY <1>0, <1>1 DEF WorkOK, Carrying, Drivers
<1>3. proc' \in [Workers -> Work] /\ WorkerMoves(w) /\ WorkOK(w)'
  BY <1>0, <1>1, <1>2, Loads
<1>4. EvtType' /\ old' \in SUBSET Refunds /\ HookSteps /\ faults' \in Nat
  BY <1>0, <1>1 DEF RType, EvtType, HookSteps
<1>5. QED
  BY <1>1, <1>3, <1>4, QuietMoves

(* The cache is filled from the copy just loaded.                            *)
LEMMA CacheFillMoves ==
    ASSUME Copies, NEW w \in Workers, CacheFill(w)
    PROVE  Moves(w)
<1>0. RType /\ proc[w] \in Work /\ WorkOK(w)
  BY DEF Copies, RType
<1>1. /\ proc[w].pc = "fill" /\ Goto(w, "loaded") /\ cache' = proc[w].snap
      /\ UNCHANGED <<parent, refunds, evt, old, gw, hook, faults>>
  BY DEF CacheFill
<1>2. PICK p \in Work : Become(w, p) /\ p = [proc[w] EXCEPT !.pc = "loaded"]
  BY <1>0, <1>1, Gotos
<1>3. /\ p.pc = "loaded" /\ p.op = proc[w].op /\ p.id = proc[w].id /\ p.rf = proc[w].rf
      /\ p.snap = proc[w].snap
  BY <1>0, <1>2 DEF Work
<1>4. /\ proc' \in [Workers -> Work] /\ proc'[w] = p
      /\ \A v \in Workers : v # w => proc'[v] = proc[v]
  BY <1>0, <1>2, Becomes
<1>5. proc[w].snap \in Transaction /\ AgreesWith(proc[w].snap, parent)
  BY <1>0, <1>1 DEF WorkOK
<1>6. WorkOK(w)'
  <2>1. p.op \in {"initiate", "resolve"} =>
           /\ p.id \in Refunds /\ p.id # NoRow /\ refunds[p.id].status = "none"
           /\ \A v \in Workers : proc'[v].id = p.id => v = w
    BY <1>0, <1>3, <1>4 DEF WorkOK
  <2>2. p.op \in Drivers =>
           /\ p.id \in Refunds /\ refunds[p.id].status # "none"
           /\ p.rf.status \in Outstanding /\ AgreesWith(p.rf, refunds[p.id])
    BY <1>0, <1>1, <1>3 DEF WorkOK, Carrying
  <2>3. p.op = "webhook" => hook' \in {"sent", "recorded"}
    BY <1>0, <1>1, <1>3 DEF WorkOK
  <2>4. QED
    BY <1>1, <1>3, <1>4, <1>5, <2>1, <2>2, <2>3 DEF WorkOK
<1>7. WorkerMoves(w)
  BY <1>3, <1>4 DEF WorkerMoves
<1>8. RType'
  BY <1>0, <1>1, <1>4, <1>5 DEF RType
<1>9. ParentSteps /\ RefundSteps(w) /\ GatewaySteps /\ HookSteps
  BY <1>0, <1>1 DEF ParentSteps, RefundSteps, GatewaySteps, HookSteps, RType, GatewayRow
<1>10. QED
  BY <1>1, <1>5, <1>6, <1>7, <1>8, <1>9 DEF Moves

(* A request starts: InitiateRequest and ResolveCancelRefund.               *)
LEMMA RequestMoves ==
    ASSUME Copies, NEW w \in Workers, NEW r \in Refunds,
           ResolveCancelRefund(w, r) \/ \E amount \in 1..Amount : InitiateRequest(w, r, amount)
    PROVE  Moves(w)
<1>0. RType /\ Idle \in Work
  BY IdleTypes DEF Copies
<1>1. PICK q \in Work : /\ Become(w, GetByID(q)) /\ q.id = r
                        /\ q.op \in {"initiate", "resolve"}
  <2>1. CASE ResolveCancelRefund(w, r)
    <3> DEFINE q == [Idle EXCEPT !.op = "resolve", !.id = r,
                                 !.rf.amount = Amount, !.rf.reason = "cancel_resolution"]
    <3> DEFINE f == [NoRefund EXCEPT !.amount = Amount, !.reason = "cancel_resolution"]
    <3>0. f \in RefundRow /\ q = [Idle EXCEPT !.op = "resolve", !.id = r, !.rf = f]
      BY Zenon, RefundConstants, IdleTypes DEF Idle, NoRefund, RefundRow
    <3> HIDE DEF f
    <3>1. q \in Work /\ q.id = r /\ q.op = "resolve"
      BY Zenon, <1>0, <3>0 DEF Work
    <3>2. QED
      BY Zenon, <2>1, <3>1 DEF ResolveCancelRefund
  <2>2. ASSUME NEW amount \in 1..Amount, InitiateRequest(w, r, amount)
        PROVE  \E q \in Work : /\ Become(w, GetByID(q)) /\ q.id = r
                               /\ q.op \in {"initiate", "resolve"}
    <3> DEFINE q == [Idle EXCEPT !.op = "initiate", !.id = r, !.rf.amount = amount]
    <3>1. amount \in Nat
      BY RefundConstants
    <3>2. q \in Work /\ q.id = r /\ q.op = "initiate"
      BY Zenon, <3>1, IdleTypes DEF Idle, Work, NoRefund, RefundRow
    <3>3. QED
      BY Zenon, <2>2, <3>2 DEF InitiateRequest
  <2>3. QED
    BY <2>1, <2>2
<1>2. /\ proc[w] = Idle /\ refunds[r].status = "none" /\ \A v \in Workers : proc[v].id # r
      /\ UNCHANGED <<parent, cache, refunds, evt, old, gw, hook, faults>>
  BY Zenon DEF ResolveCancelRefund, InitiateRequest
<1>3. q.op \notin Drivers /\ q.op # "webhook"
  BY <1>1 DEF Drivers
<1>4. proc' \in [Workers -> Work] /\ WorkerMoves(w) /\ WorkOK(w)'
  BY <1>1, <1>2, <1>3, Loads
<1>5. EvtType' /\ old' \in SUBSET Refunds /\ HookSteps /\ faults' \in Nat
  BY <1>0, <1>2 DEF RType, EvtType, HookSteps
<1>6. QED
  BY <1>2, <1>4, <1>5, QuietMoves

(* A webhook about a refund arrives.                                         *)
LEMMA WebhookArrivesMoves ==
    ASSUME Copies, NEW w \in Workers, WebhookArrives(w)
    PROVE  Moves(w)
<1>0. RType /\ Idle \in Work
  BY IdleTypes DEF Copies
<1> DEFINE q == [Idle EXCEPT !.op = "webhook"]
<1>1. q \in Work /\ q.op = "webhook" /\ q.id = NoRow
  BY <1>0, IdleTypes DEF Work, Idle
<1>2. /\ Become(w, GetByID(q)) /\ hook = "sent"
      /\ UNCHANGED <<parent, cache, refunds, evt, old, gw, hook, faults>>
  BY DEF WebhookArrives
<1> HIDE DEF q
<1>3. q.op \notin Drivers /\ q.op \notin {"initiate", "resolve"}
  BY <1>1 DEF Drivers
<1>4. proc' \in [Workers -> Work] /\ WorkerMoves(w) /\ WorkOK(w)'
  BY <1>1, <1>2, <1>3, Loads
<1>5. EvtType' /\ old' \in SUBSET Refunds /\ HookSteps /\ faults' \in Nat
  BY <1>0, <1>2 DEF RType, EvtType, HookSteps
<1>6. QED
  BY <1>2, <1>4, <1>5, QuietMoves

(* A worker turns to a refund: the relay, the cancel resolution, the reaper. *)
LEMMA DriveMoves ==
    ASSUME Copies, NEW w \in Workers, NEW op \in Drivers, NEW r \in Refunds,
           NEW todo \in SUBSET Refunds, Drive(w, op, r, todo)
    PROVE  Moves(w)
<1>0. RType /\ Idle \in Work /\ refunds[r] \in RefundRow
  BY IdleTypes DEF Copies, RType
<1> DEFINE p == [Idle EXCEPT !.op = op, !.pc = "load", !.id = r, !.rf = refunds[r], !.todo = todo]
<1>1. p \in Work /\ p.op = op /\ p.pc = "load" /\ p.id = r /\ p.rf = refunds[r]
  BY Zenon, <1>0 DEF Work, Idle, Drivers
<1>2. /\ refunds[r].status \in Outstanding /\ Become(w, p)
      /\ UNCHANGED <<parent, cache, refunds, evt, old, gw, hook, faults>>
  BY DEF Drive, StartsFrom, Outstanding
<1> HIDE DEF p
<1>3. /\ proc' \in [Workers -> Work] /\ proc'[w] = p
      /\ \A v \in Workers : v # w => proc'[v] = proc[v]
  BY <1>0, <1>1, <1>2, Becomes
<1>4. WorkerMoves(w)
  BY <1>1, <1>2, <1>3 DEF WorkerMoves, Outstanding
<1>5. WorkOK(w)'
  <2>1. AgreesWith(p.rf, refunds[p.id])
    BY <1>0, <1>1, AgreesItself DEF RefundRow
  <2>2. p.op \in Drivers /\ p.op \notin {"initiate", "resolve", "webhook"}
    BY <1>1 DEF Drivers
  <2>3. refunds[r].status # "none"
    BY <1>2 DEF Outstanding
  <2>4. QED
    BY <1>1, <1>2, <1>3, <2>1, <2>2, <2>3 DEF WorkOK
<1>6. EvtType' /\ old' \in SUBSET Refunds /\ HookSteps /\ faults' \in Nat
  BY <1>0, <1>2 DEF RType, EvtType, HookSteps
<1>7. QED
  BY <1>2, <1>3, <1>4, <1>5, <1>6, QuietMoves

(* The relay delivers a refund's event.                                      *)
LEMMA DeliverMoves ==
    ASSUME Copies, NEW w \in Workers, NEW r \in Refunds, Deliver(w, r)
    PROVE  Moves(w)
<1>1. CASE Drive(w, "process", r, {})
  BY <1>1, DriveMoves DEF Drivers
<1>2. CASE /\ evt' = [evt EXCEPT ![r].status = "published"]
           /\ UNCHANGED <<parent, cache, refunds, effects, old, gw, hook, proc, faults>>
  <2>1. RType /\ WorkOK(w)
    BY DEF Copies
  <2>2. EvtType' /\ old' \in SUBSET Refunds /\ HookSteps /\ faults' \in Nat
    BY <1>2, <2>1 DEF RType, EvtType, HookSteps
  <2>3. proc' \in [Workers -> Work] /\ WorkerMoves(w)
    BY <1>2, <2>1 DEF RType, WorkerMoves
  <2>4. WorkOK(w)'
    BY <1>2, <2>1 DEF WorkOK
  <2>5. QED
    BY <1>2, <2>2, <2>3, <2>4, QuietMoves
<1>3. QED
  BY <1>1, <1>2 DEF Deliver

(* A worker ends, or goes on to its next refund, and changes nothing else   *)
(* that matters here.                                                       *)
LEMMA RestMoves ==
    ASSUME Copies, NEW w \in Workers, NEW p \in Work, Become(w, p),
           p = Idle \/ (p.op = "retry" /\ p.pc = "next"), p.id \in {NoRow, proc[w].id},
           UNCHANGED <<parent, refunds, gw>>, cache' \in {cache, NoRow},
           EvtType', old' = old, HookSteps, faults' \in Nat
    PROVE  Moves(w)
<1>1. proc' \in [Workers -> Work] /\ WorkerMoves(w) /\ WorkOK(w)'
  BY Rests
<1>2. old' \in SUBSET Refunds
  BY DEF Copies, RType
<1>3. QED
  BY <1>1, <1>2, QuietMoves

(* A refund is processed by the call that created it.                        *)
LEMMA ProcessDirectlyMoves ==
    ASSUME Copies, NEW w \in Workers, ProcessDirectly(w)
    PROVE  Moves(w)
<1>0. RType /\ WorkOK(w) /\ Idle \in Work /\ Idle.id = NoRow
  BY IdleTypes DEF Copies
<1>1. CASE Drive(w, "direct", proc[w].id, {})
  <2>1. proc[w].id \in Refunds
    BY <1>0 DEF ProcessDirectly, At, WorkOK, Drivers
  <2>2. QED
    BY <1>1, <2>1, DriveMoves DEF Drivers
<1>2. CASE /\ Become(w, Idle)
           /\ UNCHANGED <<parent, cache, refunds, evt, effects, old, gw, hook, faults>>
  <2>1. EvtType' /\ HookSteps /\ faults' \in Nat
    BY <1>0, <1>2 DEF RType, EvtType, HookSteps
  <2>2. QED
    BY <1>0, <1>2, <2>1, RestMoves
<1>3. QED
  BY <1>1, <1>2 DEF ProcessDirectly

(* The reaper lists the overdue refunds and takes the next.                  *)
LEMMA ReaperMoves ==
    ASSUME Copies, NEW w \in Workers, ReaperRun(w) \/ ReaperNext(w)
    PROVE  Moves(w)
<1>0. RType /\ proc[w] \in Work /\ Idle \in Work /\ Idle.id = NoRow
  BY IdleTypes DEF Copies, RType
<1>1. CASE ReaperRun(w)
  <2> DEFINE p == [Idle EXCEPT !.op = "retry", !.pc = "next", !.todo = ListStaleRefunds]
  <2>1. ListStaleRefunds \in SUBSET Refunds
    BY <1>0 DEF ListStaleRefunds, RType
  <2>2. p \in Work /\ p.op = "retry" /\ p.pc = "next" /\ p.id = NoRow
    BY Zenon, <1>0, <2>1 DEF Work, Idle
  <2>3. /\ Become(w, p)
        /\ UNCHANGED <<parent, cache, refunds, evt, effects, old, gw, hook, faults>>
    BY <1>1 DEF ReaperRun
  <2>4. EvtType' /\ HookSteps /\ faults' \in Nat
    BY <1>0, <2>3 DEF RType, EvtType, HookSteps
  <2> HIDE DEF p
  <2>5. QED
    BY <2>2, <2>3, <2>4, RestMoves
<1>2. CASE ReaperNext(w)
  <2>0. proc[w].op = "retry" /\ proc[w].pc = "next" /\ proc[w].todo \in SUBSET Refunds
    BY <1>0, <1>2 DEF ReaperNext, At, Work
  <2>1. PICK r \in proc[w].todo :
          \/ Drive(w, "retry", r, proc[w].todo \ {r})
          \/ /\ Become(w, IF proc[w].todo = {r} THEN Idle ELSE [proc[w] EXCEPT !.todo = @ \ {r}])
             /\ UNCHANGED <<parent, cache, refunds, evt, effects, old, gw, hook, faults>>
    BY Zenon, <1>2 DEF ReaperNext
  <2>2. CASE Drive(w, "retry", r, proc[w].todo \ {r})
    <3>1. r \in Refunds /\ proc[w].todo \ {r} \in SUBSET Refunds
      BY <2>0
    <3>2. QED
      BY <2>2, <3>1, DriveMoves DEF Drivers
  <2>3. CASE /\ Become(w, IF proc[w].todo = {r} THEN Idle ELSE [proc[w] EXCEPT !.todo = @ \ {r}])
             /\ UNCHANGED <<parent, cache, refunds, evt, effects, old, gw, hook, faults>>
    <3> DEFINE p == IF proc[w].todo = {r} THEN Idle ELSE [proc[w] EXCEPT !.todo = @ \ {r}]
    <3>1. /\ p \in Work
          /\ p = Idle \/ (p.op = "retry" /\ p.pc = "next")
          /\ p.id \in {NoRow, proc[w].id}
      BY <1>0, <2>0 DEF Work
    <3>2. Become(w, p)
      BY <2>3
    <3>3. EvtType' /\ HookSteps /\ faults' \in Nat
      BY <1>0, <2>3 DEF RType, EvtType, HookSteps
    <3> HIDE DEF p
    <3>4. QED
      BY <2>3, <3>1, <3>2, <3>3, RestMoves
  <2>4. QED
    BY <2>1, <2>2, <2>3
<1>3. QED
  BY <1>1, <1>2

(* A run of ProcessRefund or RetryStaleRefund ends without a change.        *)
LEMMA ReturnMoves ==
    ASSUME Copies, NEW w \in Workers, NEW ok \in BOOLEAN, Return(w, ok),
           UNCHANGED <<parent, refunds, gw>>, cache' \in {cache, NoRow},
           old' = old, hook' = hook, faults' \in Nat
    PROVE  Moves(w)
<1>0. RType
  BY DEF Copies
<1>1. PICK p \in Work : Become(w, p) /\ Ended(w, p)
  BY <1>0, Returns
<1>2. EvtType'
  BY <1>0, Returns DEF EvtType
<1>3. HookSteps
  BY <1>0 DEF RType, HookSteps
<1>4. (p = Idle \/ (p.op = "retry" /\ p.pc = "next")) /\ p.id = NoRow
  BY <1>0, <1>1, EndedRests
<1>5. QED
  BY <1>1, <1>2, <1>3, <1>4, RestMoves

(* A statement fails, or a commit is refused.                                *)
LEMMA FailureMoves ==
    ASSUME Copies, NEW w \in Workers, StatementFails(w) \/ FinalizeRefused(w)
    PROVE  Moves(w)
<1>0. RType
  BY DEF Copies
<1>1. CASE StatementFails(w)
  <2>1. /\ Return(w, FALSE) /\ faults' = faults + 1
        /\ UNCHANGED <<parent, cache, refunds, old, gw, hook>>
    BY Zenon, <1>1 DEF StatementFails
  <2>2. faults' \in Nat
    BY <1>0, <2>1 DEF RType
  <2>3. QED
    BY Zenon, <2>1, <2>2, ReturnMoves
<1>2. CASE FinalizeRefused(w)
  <2>1. /\ Return(w, FALSE) /\ cache' \in {cache, NoRow}
        /\ UNCHANGED <<parent, refunds, old, gw, hook, faults>>
    BY Zenon, <1>2 DEF FinalizeRefused
  <2>2. faults' \in Nat
    BY <1>0, <2>1 DEF RType
  <2>3. QED
    BY Zenon, <2>1, <2>2, ReturnMoves
<1>3. QED
  BY <1>1, <1>2

(* A worker dies.                                                            *)
LEMMA CrashMoves ==
    ASSUME Copies, NEW w \in Workers, Crash(w)
    PROVE  Moves(w)
<1>0. RType /\ Idle \in Work /\ Idle.id = NoRow
  BY IdleTypes DEF Copies
<1>1. /\ faults' = faults + 1 /\ Become(w, Idle)
      /\ UNCHANGED <<parent, cache, refunds, evt, effects, old, gw, hook>>
  BY DEF Crash
<1>2. EvtType' /\ HookSteps /\ faults' \in Nat
  BY <1>0, <1>1 DEF RType, EvtType, HookSteps
<1>3. QED
  BY <1>0, <1>1, <1>2, RestMoves

(* The refund of a worker changes to x: its version grows.                  *)
LEMMA RefundChangeType ==
    ASSUME RType, NEW w \in Workers, proc[w].id \in Refunds, NEW x \in RefundRow,
           refunds' = [refunds EXCEPT ![proc[w].id] = x],
           x.version = refunds[proc[w].id].version + 1, x.status # "none"
    PROVE  /\ refunds' \in [Refunds -> RefundRow] /\ RefundSteps(w)
           /\ refunds'[proc[w].id] = x
           /\ \A r \in Refunds : r # proc[w].id => refunds'[r] = refunds[r]
BY Zenon DEF RType, RefundSteps

(* A refund's row with a new status and the next version.                   *)
Bumped(f, status, attempts) ==
    [f EXCEPT !.status = status, !.version = f.version + 1, !.attempts = attempts]

(* A status a requested refund may have.                                    *)
Given(status) == status \in Outstanding \cup Closed

(* x is the row f with the status s and the next version.                   *)
Follows(x, f, s) ==
    /\ x \in RefundRow
    /\ x.version = f.version + 1 /\ x.status = s
    /\ x.amount = f.amount /\ x.reason = f.reason
    /\ s # "none"

(* A refund's row moves one version on.                                      *)
LEMMA BumpedRow ==
    ASSUME NEW f \in RefundRow, NEW s, Given(s), NEW a \in Nat
    PROVE  Follows(Bumped(f, s, a), f, s)
<1> DEFINE v == f.version + 1
<1>1. v \in Nat
  BY DEF RefundRow
<1>2. Bumped(f, s, a) = [f EXCEPT !.status = s, !.version = v, !.attempts = a]
  BY DEF Bumped
<1> HIDE DEF v
<1>3. /\ Bumped(f, s, a) \in RefundRow
      /\ Bumped(f, s, a).version = v /\ Bumped(f, s, a).status = s
      /\ Bumped(f, s, a).amount = f.amount /\ Bumped(f, s, a).reason = f.reason
  BY Zenon, <1>1, <1>2 DEF RefundRow, Given
<1>4. QED
  BY <1>3 DEF v, Given, Outstanding, Closed, Follows

(* A refund is claimed for processing.                                       *)
LEMMA ClaimMoves ==
    ASSUME Copies, NEW w \in Workers, ClaimProcessing(w)
    PROVE  Moves(w)
<1>0. RType /\ WorkOK(w) /\ proc[w] \in Work
  BY DEF Copies, RType
<1> DEFINE r == proc[w].id
<1>1. proc[w].op \in Drivers /\ proc[w].pc = "loaded"
  BY DEF ClaimProcessing, At
<1>2. r \in Refunds /\ refunds[r] \in RefundRow
  BY <1>0, <1>1 DEF WorkOK, RType
<1>3. CASE Claimable(w)
  <2> DEFINE x == Bumped(refunds[r], "REFUND_PROCESSING", refunds[r].attempts + 1)
             p == [proc[w] EXCEPT !.pc = "call", !.rf = x]
  <2>1. x \in RefundRow /\ x.version = refunds[r].version + 1 /\ x.status = "REFUND_PROCESSING"
    <3>1. refunds[r].attempts + 1 \in Nat
      BY <1>2 DEF RefundRow
    <3>2. Given("REFUND_PROCESSING")
      BY DEF Given, Outstanding
    <3>3. Follows(x, refunds[r], "REFUND_PROCESSING")
      BY <1>2, <3>1, <3>2, BumpedRow, Zenon
    <3> HIDE DEF x
    <3>4. QED
      BY <3>3 DEF Follows
  <2>2. refunds' = [refunds EXCEPT ![r] = x]
    <3>1. refunds' = [refunds EXCEPT ![r].status = "REFUND_PROCESSING",
                                     ![r].version = @ + 1, ![r].attempts = @ + 1]
      BY <1>3 DEF ClaimProcessing
    <3>2. QED
      BY <1>0, <1>2, <3>1 DEF RType, RefundRow, Bumped
  <2>3. /\ old' = old \ {r} /\ Become(w, [proc[w] EXCEPT !.pc = "call", !.rf = refunds'[r]])
        /\ UNCHANGED <<evt, parent, cache, gw, hook, faults>>
    BY <1>3 DEF ClaimProcessing, Touch
  <2> HIDE DEF x
  <2>4. /\ refunds' \in [Refunds -> RefundRow] /\ RefundSteps(w) /\ refunds'[r] = x
    BY Zenon, <1>0, <1>2, <2>1, <2>2, RefundChangeType
  <2>5. /\ p \in Work /\ p.pc = "call" /\ p.op = proc[w].op /\ p.id = r /\ p.rf = x
        /\ p.snap = proc[w].snap
    BY Zenon, <1>0, <2>1 DEF Work
  <2>6. Become(w, p)
    BY <2>3, <2>4
  <2> HIDE DEF p
  <2>7. /\ proc' \in [Workers -> Work] /\ proc'[w] = p
        /\ \A v \in Workers : v # w => proc'[v] = proc[v]
    BY <1>0, <2>5, <2>6, Becomes
  <2>8. WorkerMoves(w)
    BY <2>5, <2>7 DEF WorkerMoves
  <2>9. WorkOK(w)'
    <3>1. proc[w].snap \in Transaction /\ AgreesWith(proc[w].snap, parent)
      BY <1>0, <1>1 DEF WorkOK
    <3>2. AgreesWith(x, x)
      BY <2>1, AgreesItself DEF RefundRow
    <3>3. p.op \notin {"initiate", "resolve", "webhook"} /\ x.status \in Outstanding
      BY <1>1, <2>1, <2>5 DEF Drivers, Outstanding
    <3>4. QED
      BY <1>1, <1>2, <2>1, <2>3, <2>4, <2>5, <2>7, <3>1, <3>2, <3>3 DEF WorkOK
  <2>10. RType'
    BY <1>0, <2>3, <2>4, <2>7 DEF RType
  <2>11. ParentSteps /\ GatewaySteps /\ HookSteps /\ (cache' # NoRow => AgreesWith(cache', parent'))
    BY <1>0, <2>3 DEF ParentSteps, GatewaySteps, HookSteps, RType, GatewayRow, Copies
  <2>12. QED
    BY <2>4, <2>8, <2>9, <2>10, <2>11 DEF Moves
<1>4. CASE ~ Claimable(w)
  <2>1. /\ Return(w, TRUE) /\ UNCHANGED <<refunds, old>>
        /\ UNCHANGED <<parent, cache, effects, gw, hook, faults>>
    BY Zenon, <1>4 DEF ClaimProcessing
  <2>2. faults' \in Nat
    BY <1>0, <2>1 DEF RType
  <2>3. QED
    BY Zenon, <2>1, <2>2, ReturnMoves
<1>5. QED
  BY <1>3, <1>4

(* The refund a worker has an answer for, when its version check passes.    *)
LEMMA CurrentRefund ==
    ASSUME RType, NEW w \in Workers, WorkOK(w), proc[w].pc = "answered"
    PROVE  /\ proc[w].op \in Drivers /\ proc[w].id \in Refunds
           /\ refunds[proc[w].id] \in RefundRow
           /\ RefundCurrent(w) => refunds[proc[w].id].status \in Outstanding
<1>1. /\ proc[w].op \in Drivers /\ proc[w].id \in Refunds
      /\ proc[w].rf.status \in Outstanding /\ AgreesWith(proc[w].rf, refunds[proc[w].id])
  BY DEF WorkOK, Carrying
<1>2. refunds[proc[w].id] \in RefundRow
  BY <1>1 DEF RType
<1>3. QED
  BY <1>1, <1>2 DEF RefundCurrent, AgreesWith

(* It is marked as sent to the gateway.                                      *)
LEMMA PersistMoves ==
    ASSUME Copies, NEW w \in Workers, PersistInFlight(w)
    PROVE  Moves(w)
<1>0. RType /\ WorkOK(w) /\ proc[w] \in Work
  BY DEF Copies, RType
<1> DEFINE r == proc[w].id
<1>1. /\ proc[w].pc = "answered" /\ UNCHANGED <<parent, cache, effects, gw, hook, faults>>
  BY DEF PersistInFlight
<1>2. r \in Refunds /\ refunds[r] \in RefundRow
  BY <1>0, <1>1, CurrentRefund
<1>3. CASE RefundCurrent(w)
  <2> DEFINE x == Bumped(refunds[r], refunds[r].status, refunds[r].attempts)
  <2>1. x \in RefundRow /\ x.version = refunds[r].version + 1 /\ x.status # "none"
    <3>1. refunds[r].status \in Outstanding /\ refunds[r].attempts \in Nat
      BY <1>0, <1>1, <1>2, <1>3, CurrentRefund DEF RefundRow
    <3>2. Given(refunds[r].status)
      BY <3>1 DEF Given
    <3>3. Follows(x, refunds[r], refunds[r].status)
      BY <1>2, <3>1, <3>2, BumpedRow, Zenon
    <3> HIDE DEF x
    <3>4. QED
      BY <3>3 DEF Follows
  <2>2. refunds' = [refunds EXCEPT ![r] = x]
    <3>1. refunds' = [refunds EXCEPT ![r].version = @ + 1]
      BY <1>3 DEF PersistInFlight
    <3>2. QED
      BY Zenon, <1>0, <1>2, <3>1 DEF RType, RefundRow, Bumped
  <2>3. old' = old \ {r} /\ Return(w, TRUE)
    BY Zenon, <1>3 DEF PersistInFlight, Touch
  <2> HIDE DEF x
  <2>4. refunds' \in [Refunds -> RefundRow] /\ RefundSteps(w)
    BY Zenon, <1>0, <1>2, <2>1, <2>2, RefundChangeType
  <2>5. PICK p \in Work : Become(w, p) /\ Ended(w, p)
    BY Zenon, <1>0, <2>3, Returns
  <2>6. proc' \in [Workers -> Work] /\ WorkerMoves(w) /\ WorkOK(w)'
    BY <1>0, <2>5, EndedRests, Rests
  <2>7. RType'
    BY Zenon, <1>0, <1>1, <2>3, <2>4, <2>6, Returns DEF RType
  <2>8. ParentSteps /\ GatewaySteps /\ HookSteps /\ (cache' # NoRow => AgreesWith(cache', parent'))
    BY <1>0, <1>1 DEF ParentSteps, GatewaySteps, HookSteps, RType, GatewayRow, Copies
  <2>9. QED
    BY <2>4, <2>6, <2>7, <2>8 DEF Moves
<1>4. CASE ~ RefundCurrent(w)
  <2>1. Return(w, FALSE) /\ UNCHANGED <<refunds, old>>
    BY Zenon, <1>4 DEF PersistInFlight
  <2>2. faults' \in Nat
    BY <1>0, <1>1 DEF RType
  <2>3. QED
    BY Zenon, <1>1, <2>1, <2>2, ReturnMoves
<1>5. QED
  BY <1>3, <1>4

(* What a result makes of the parent is a status.                           *)
LEMMA ParentResultType ==
    ASSUME RType, NEW w \in Workers, WorkOK(w), proc[w].pc = "answered"
    PROVE  ParentResult(w) \in Status
<1>1. proc[w].snap \in Transaction
  BY DEF WorkOK
<1>2. proc[w].snap.status \in Status
  BY <1>1 DEF Transaction
<1>3. ParentResult(w) \in {"REFUNDED", "PARTIALLY_REFUNDED", proc[w].snap.status, "REFUND_FAILED"}
  BY DEF ParentResult, transitionParentOnRefundResult
<1>4. QED
  BY <1>2, <1>3 DEF Status

(* A payment's row moves one version on, and the cache forgets it.           *)
LEMMA UpdateParentSteps ==
    ASSUME RType, NEW to \in Status, UpdateParent(to)
    PROVE  /\ parent' \in Transaction /\ parent'.status = to
           /\ parent'.version = parent.version + 1 /\ ParentSteps
           /\ cache' = NoRow
BY DEF UpdateParent, RType, Transaction, ParentSteps

(* The gateway's answer is committed with the payment's status.              *)
LEMMA FinalizeMoves ==
    ASSUME Copies, NEW w \in Workers, FinalizeRefund(w)
    PROVE  Moves(w)
<1>0. RType /\ WorkOK(w) /\ proc[w] \in Work
  BY DEF Copies, RType
<1> DEFINE r == proc[w].id
           x == Bumped(refunds[r], RefundOutcome(w), refunds[r].attempts)
<1>1. /\ proc[w].pc = "answered" /\ RefundOutcome(w) # "none"
      /\ old' = old \ {r} /\ UpdateParent(ParentResult(w)) /\ Return(w, TRUE)
      /\ UNCHANGED <<gw, hook, faults>>
  BY Zenon DEF FinalizeRefund, Touch
<1>2. r \in Refunds /\ refunds[r] \in RefundRow
  BY <1>0, <1>1, CurrentRefund
<1>3. x \in RefundRow /\ x.version = refunds[r].version + 1 /\ x.status # "none"
  <2>1. Given(RefundOutcome(w)) /\ refunds[r].attempts \in Nat
    BY <1>1, <1>2 DEF RefundOutcome, resolveRefundOutcome, Closed, RefundRow, Given
  <2>2. Follows(x, refunds[r], RefundOutcome(w))
    BY <1>2, <2>1, BumpedRow, Zenon
  <2> HIDE DEF x
  <2>3. QED
    BY <2>2 DEF Follows
<1>4. refunds' = [refunds EXCEPT ![r] = x]
  <2>1. refunds' = [refunds EXCEPT ![r].status = RefundOutcome(w), ![r].version = @ + 1]
    BY DEF FinalizeRefund
  <2>2. QED
    BY <1>0, <1>2, <2>1 DEF RType, RefundRow, Bumped
<1> HIDE DEF x
<1>5. refunds' \in [Refunds -> RefundRow] /\ RefundSteps(w)
  BY Zenon, <1>0, <1>2, <1>3, <1>4, RefundChangeType
<1>6. PICK p \in Work : Become(w, p) /\ Ended(w, p)
  BY Zenon, <1>0, <1>1, Returns
<1>7. proc' \in [Workers -> Work] /\ WorkerMoves(w) /\ WorkOK(w)'
  BY <1>0, <1>6, EndedRests, Rests
<1>8. parent' \in Transaction /\ ParentSteps /\ cache' = NoRow
  BY <1>0, <1>1, ParentResultType, UpdateParentSteps
<1>9. EvtType'
  BY Zenon, <1>0, <1>1, Returns DEF EvtType
<1>10. RType'
  BY <1>0, <1>1, <1>5, <1>7, <1>8, <1>9 DEF RType, EvtType
<1>11. GatewaySteps /\ HookSteps
  BY <1>0, <1>1 DEF GatewaySteps, HookSteps, RType, GatewayRow
<1>12. QED
  BY <1>5, <1>7, <1>8, <1>10, <1>11 DEF Moves

(* What a request may leave at the gateway.                                 *)
LEMMA RequestRow ==
    ASSUME RType, NEW r \in Refunds, RefundOK(r), NEW g \in Request(r)
    PROVE  /\ g \in GatewayRow /\ g.status # "none"
           /\ g.times >= gw[r].times
           /\ g.status = "succeeded" => g.times > 0
           /\ KeyedRefunds /\ g.status # "succeeded" => g.times = 0
           /\ KeyedRefunds /\ gw[r].status = "failed" => g.status = "failed"
<1>1. gw[r] \in GatewayRow /\ gw[r].times \in Nat
  BY DEF RType, GatewayRow
<1>2. CASE Known(r)
  <2>1. g = gw[r] /\ gw[r].status # "none"
    BY <1>2 DEF Request, Known
  <2>2. QED
    BY <1>1, <2>1 DEF RefundOK
<1>3. CASE ~ Known(r)
  <2>1. KeyedRefunds => gw[r].status = "none" /\ gw[r].times = 0
    BY <1>3 DEF Known, RefundOK
  <2>2. \/ g = [gw[r] EXCEPT !.status = "failed"]
        \/ g = [gw[r] EXCEPT !.status = "pending"]
        \/ g = [status |-> "succeeded", times |-> gw[r].times + 1]
    BY <1>3 DEF Request
  <2>3. QED
    BY <1>1, <2>1, <2>2 DEF GatewayRow
<1>4. QED
  BY <1>2, <1>3

(* The gateway is asked for the refund.                                      *)
LEMMA GatewayRefundMoves ==
    ASSUME Copies, NEW w \in Workers, GatewayRefund(w)
    PROVE  Moves(w)
<1>0. RType /\ WorkOK(w) /\ proc[w] \in Work
  BY DEF Copies, RType
<1> DEFINE r == proc[w].id
<1>1. /\ proc[w].pc = "call" /\ UNCHANGED <<parent, cache, refunds, evt, effects, old, hook>>
  BY Zenon DEF GatewayRefund
<1>2. /\ proc[w].op \in Drivers /\ r \in Refunds /\ refunds[r].status # "none"
      /\ proc[w].snap \in Transaction /\ AgreesWith(proc[w].snap, parent)
      /\ proc[w].rf.status \in Outstanding /\ AgreesWith(proc[w].rf, refunds[r])
  BY <1>0, <1>1 DEF WorkOK, Carrying
<1>3. PICK a \in {"processing", "completed", "failed", "unknown"} :
         /\ Become(w, [proc[w] EXCEPT !.pc = "answered", !.answer = a])
         /\ gw' \in [Refunds -> GatewayRow] /\ GatewaySteps
         /\ a = "completed" => gw'[r].times > 0
         /\ a = "failed" /\ KeyedRefunds => gw'[r].status = "failed"
         /\ faults' \in Nat
  <2>1. ASSUME NEW g \in Request(r), gw' = [gw EXCEPT ![r] = g],
               NEW a \in {answerOf[g.status], "unknown"},
               faults' \in {faults, faults + 1},
               Become(w, [proc[w] EXCEPT !.pc = "answered", !.answer = a])
        PROVE  /\ a \in {"processing", "completed", "failed", "unknown"}
               /\ gw' \in [Refunds -> GatewayRow] /\ GatewaySteps
               /\ a = "completed" => gw'[r].times > 0
               /\ a = "failed" /\ KeyedRefunds => gw'[r].status = "failed"
               /\ faults' \in Nat
    <3>1. /\ g \in GatewayRow /\ g.status # "none" /\ g.times >= gw[r].times
          /\ g.status = "succeeded" => g.times > 0
          /\ KeyedRefunds /\ gw[r].status = "failed" => g.status = "failed"
      BY <1>0, <1>2, RequestRow DEF Copies
    <3>2. g.status \in {"pending", "succeeded", "failed"}
      BY <3>1 DEF GatewayRow
    <3>3. /\ a \in {"processing", "completed", "failed", "unknown"}
          /\ a = "completed" => g.status = "succeeded"
          /\ a = "failed" => g.status = "failed"
      BY <2>1, <3>2 DEF answerOf
    <3>4. gw \in [Refunds -> GatewayRow] /\ faults \in Nat
      BY <1>0 DEF RType
    <3>5. gw' \in [Refunds -> GatewayRow] /\ gw'[r] = g /\ faults' \in Nat
      BY <1>2, <2>1, <3>1, <3>4
    <3>6. GatewaySteps
      <4>1. \A q \in Refunds : gw[q].times \in Nat
        BY <3>4 DEF GatewayRow
      <4>2. \A q \in Refunds : q # r => gw'[q] = gw[q]
        BY <2>1, <3>4
      <4>3. QED
        BY <3>1, <3>5, <4>1, <4>2 DEF GatewaySteps
    <3>7. QED
      BY <3>1, <3>3, <3>5, <3>6
  <2>2. CASE /\ faults' = faults + 1
             /\ Become(w, [proc[w] EXCEPT !.pc = "answered", !.answer = "unknown"])
             /\ UNCHANGED gw
    BY <1>0, <2>2 DEF RType, GatewaySteps, GatewayRow
  <2>3. \/ \E g \in Request(r) :
             /\ gw' = [gw EXCEPT ![r] = g]
             /\ \E a \in {answerOf[g.status], "unknown"} :
                   /\ faults' \in {faults, faults + 1}
                   /\ Become(w, [proc[w] EXCEPT !.pc = "answered", !.answer = a])
        \/ /\ faults' = faults + 1
           /\ Become(w, [proc[w] EXCEPT !.pc = "answered", !.answer = "unknown"])
           /\ UNCHANGED gw
    BY Zenon DEF GatewayRefund
  <2>4. CASE \E g \in Request(r) :
             /\ gw' = [gw EXCEPT ![r] = g]
             /\ \E a \in {answerOf[g.status], "unknown"} :
                   /\ faults' \in {faults, faults + 1}
                   /\ Become(w, [proc[w] EXCEPT !.pc = "answered", !.answer = a])
    <3>1. PICK g \in Request(r) :
             /\ gw' = [gw EXCEPT ![r] = g]
             /\ \E a \in {answerOf[g.status], "unknown"} :
                   /\ faults' \in {faults, faults + 1}
                   /\ Become(w, [proc[w] EXCEPT !.pc = "answered", !.answer = a])
      BY Zenon, <2>4
    <3>2. PICK a \in {answerOf[g.status], "unknown"} :
             /\ faults' \in {faults, faults + 1}
             /\ Become(w, [proc[w] EXCEPT !.pc = "answered", !.answer = a])
      BY Zenon, <3>1
    <3>3. QED
      BY Zenon, <2>1, <3>1, <3>2
  <2>5. QED
    BY Zenon, <2>2, <2>3, <2>4
<1> DEFINE p == [proc[w] EXCEPT !.pc = "answered", !.answer = a]
<1>4. /\ p \in Work /\ p.pc = "answered" /\ p.answer = a /\ p.op = proc[w].op /\ p.id = r
      /\ p.rf = proc[w].rf /\ p.snap = proc[w].snap
  BY Zenon, <1>0 DEF Work
<1> HIDE DEF p
<1>5. /\ proc' \in [Workers -> Work] /\ proc'[w] = p
      /\ \A v \in Workers : v # w => proc'[v] = proc[v]
  BY <1>0, <1>3, <1>4, Becomes DEF p
<1>6. WorkerMoves(w)
  BY <1>4, <1>5 DEF WorkerMoves
<1>7. WorkOK(w)'
  <2>1. p.op \notin {"initiate", "resolve", "webhook"}
    BY <1>2, <1>4 DEF Drivers
  <2>2. QED
    BY <1>1, <1>2, <1>3, <1>4, <1>5, <2>1 DEF WorkOK
<1>8. RType'
  BY <1>0, <1>1, <1>3, <1>5 DEF RType
<1>9. /\ ParentSteps /\ RefundSteps(w) /\ HookSteps
      /\ cache' # NoRow => AgreesWith(cache', parent')
  BY <1>0, <1>1 DEF ParentSteps, RefundSteps, HookSteps, RType, Copies
<1>10. QED
  BY <1>3, <1>6, <1>7, <1>8, <1>9 DEF Moves

(* A webhook is committed with the payment's status.                         *)
LEMMA WebhookMoves ==
    ASSUME Copies, NEW w \in Workers, WebhookRefunded(w)
    PROVE  Moves(w)
<1>0. RType /\ Idle \in Work /\ Idle.id = NoRow
  BY IdleTypes DEF Copies
<1>1. Become(w, Idle) /\ UNCHANGED <<refunds, evt, effects, old, gw, faults>>
  BY DEF WebhookRefunded
<1>2. HookSteps /\ (UpdateParent("REFUNDED") \/ (parent' = parent /\ cache' \in {cache, NoRow}))
  BY <1>0 DEF WebhookRefunded, HookSteps, RType
<1>3. EvtType' /\ faults' \in Nat /\ old' = old
  BY <1>0, <1>1 DEF EvtType, RType
<1>4. CASE parent' = parent /\ cache' \in {cache, NoRow}
  BY <1>0, <1>1, <1>2, <1>3, <1>4, RestMoves
<1>5. CASE UpdateParent("REFUNDED")
  <2>1. parent' \in Transaction /\ ParentSteps /\ cache' = NoRow
    BY <1>0, <1>5, UpdateParentSteps DEF Status
  <2>2. proc' \in [Workers -> Work] /\ WorkerMoves(w) /\ WorkOK(w)'
    BY <1>0, <1>1, Rests
  <2>3. RType'
    <3>1. hook' \in {"off", "quiet", "sent", "recorded"}
      BY <1>2 DEF HookSteps
    <3>2. parent' \in Transaction /\ cache' \in Transaction \cup {NoRow}
      BY <2>1
    <3>3. QED
      BY <1>0, <1>1, <2>2, <3>1, <3>2 DEF RType
  <2>4. RefundSteps(w) /\ GatewaySteps
    BY <1>0, <1>1 DEF RefundSteps, GatewaySteps, RType, GatewayRow
  <2>5. QED
    BY <1>2, <2>1, <2>2, <2>3, <2>4 DEF Moves
<1>6. QED
  BY <1>2, <1>4, <1>5

(* The transaction of InitiateRefund commits.                               *)
Inserts(w) ==
    /\ At(w, {"initiate", "resolve"}, "loaded")
    /\ isRefundableStatus(proc[w].snap.status)
    /\ ParentCurrent(w) /\ New(proc[w].rf.amount, SumActiveRefunds)
    /\ UpdateParent("REFUND_PENDING")
    /\ insertRefund(proc[w].id, proc[w].rf.amount, proc[w].rf.reason)
    /\ IF proc[w].op = "resolve"
       THEN Become(w, [Idle EXCEPT !.op = "direct", !.pc = "start", !.id = proc[w].id])
       ELSE Become(w, Idle)
    /\ UNCHANGED <<effects, old, gw, hook, faults>>

Inserted(w) ==
    [status |-> "REFUND_INITIATED", amount |-> proc[w].rf.amount, reason |-> proc[w].rf.reason,
     attempts |-> 0, version |-> 1]

(* A new refund takes a row that nothing has used.                           *)
LEMMA InsertedRow ==
    ASSUME Copies, NEW w \in Workers, Inserts(w)
    PROVE  /\ proc[w].id \in Refunds /\ refunds[proc[w].id].status = "none"
           /\ Inserted(w) \in RefundRow /\ Inserted(w).status = "REFUND_INITIATED"
           /\ Inserted(w).version = refunds[proc[w].id].version + 1
           /\ refunds' = [refunds EXCEPT ![proc[w].id] = Inserted(w)]
<1>0. RType /\ WorkOK(w) /\ proc[w] \in Work
  BY DEF Copies, RType
<1>1. proc[w].id \in Refunds /\ refunds[proc[w].id].status = "none"
  BY <1>0 DEF Inserts, At, WorkOK
<1>2. refunds[proc[w].id].version = 0
  BY <1>1 DEF Copies, RefundOK
<1>3. proc[w].rf \in RefundRow
  BY <1>0 DEF Work
<1>4. /\ Inserted(w) \in RefundRow /\ Inserted(w).version = 1
      /\ Inserted(w).status = "REFUND_INITIATED"
  BY <1>3 DEF Inserted, RefundRow, Outstanding
<1>5. refunds' = [refunds EXCEPT ![proc[w].id] = Inserted(w)]
  BY DEF Inserts, insertRefund, Inserted
<1>6. QED
  BY <1>1, <1>2, <1>4, <1>5

(* So its insertion is such a step.                                          *)
LEMMA InsertMoves ==
    ASSUME Copies, NEW w \in Workers, Inserts(w)
    PROVE  Moves(w)
<1>0. RType /\ WorkOK(w) /\ proc[w] \in Work /\ Idle \in Work /\ Idle.id = NoRow
  BY IdleTypes DEF Copies, RType
<1> DEFINE r == proc[w].id
<1>1. /\ r \in Refunds /\ Inserted(w) \in RefundRow /\ Inserted(w).status = "REFUND_INITIATED"
      /\ Inserted(w).version = refunds[r].version + 1
      /\ refunds' = [refunds EXCEPT ![r] = Inserted(w)]
  BY InsertedRow
<1>2. refunds' \in [Refunds -> RefundRow] /\ RefundSteps(w) /\ refunds'[r] = Inserted(w)
  BY Zenon, <1>0, <1>1, RefundChangeType
<1>3. parent' \in Transaction /\ ParentSteps /\ cache' = NoRow
  BY <1>0, UpdateParentSteps DEF Inserts, Status
<1>4. EvtType' /\ UNCHANGED <<old, gw, hook, faults>>
  BY Zenon, <1>0 DEF Inserts, insertRefund, EvtType, RType
<1>5. proc' \in [Workers -> Work] /\ WorkerMoves(w) /\ WorkOK(w)'
  <2>1. CASE Become(w, Idle)
    BY <1>0, <2>1, Rests
  <2>2. CASE Become(w, [Idle EXCEPT !.op = "direct", !.pc = "start", !.id = r])
    <3> DEFINE p == [Idle EXCEPT !.op = "direct", !.pc = "start", !.id = r]
    <3>1. p \in Work /\ p.op = "direct" /\ p.pc = "start" /\ p.id = r
      BY Zenon, <1>0, <1>1 DEF Work, Idle
    <3> HIDE DEF p
    <3>2. /\ proc' \in [Workers -> Work] /\ proc'[w] = p
          /\ \A v \in Workers : v # w => proc'[v] = proc[v]
      BY <1>0, <2>2, <3>1, Becomes DEF p
    <3>3. WorkerMoves(w)
      BY <3>1, <3>2 DEF WorkerMoves
    <3>4. WorkOK(w)'
      BY <1>1, <1>2, <3>1, <3>2 DEF WorkOK, Carrying
    <3>5. QED
      BY <3>2, <3>3, <3>4
  <2>3. QED
    BY <2>1, <2>2 DEF Inserts
<1>6. RType'
  BY <1>0, <1>2, <1>3, <1>4, <1>5 DEF RType, EvtType
<1>7. GatewaySteps /\ HookSteps
  BY <1>0, <1>4 DEF GatewaySteps, HookSteps, RType, GatewayRow
<1>8. QED
  BY <1>2, <1>3, <1>5, <1>6, <1>7 DEF Moves

(* InitiateRefund inserts a refund, goes on with the one it finds, or ends. *)
LEMMA InitiateKinds ==
    ASSUME Copies, NEW w \in Workers, InitiateRefund(w)
    PROVE  \/ Inserts(w)
           \/ /\ \/ Become(w, Idle)
                 \/ \E q \in CancelRefunds :
                       Become(w, [Idle EXCEPT !.op = "direct", !.pc = "start", !.id = q])
              /\ cache' \in {cache, NoRow}
              /\ UNCHANGED <<parent, refunds, evt, effects, old, gw, hook, faults>>
BY Zenon DEF InitiateRefund, Inserts

(* A refund is asked for, and accepted or refused.                           *)
LEMMA InitiateMoves ==
    ASSUME Copies, NEW w \in Workers, InitiateRefund(w)
    PROVE  Moves(w)
<1>0. RType /\ Idle \in Work /\ Idle.id = NoRow
  BY IdleTypes DEF Copies
<1>1. CASE Inserts(w)
  BY <1>1, InsertMoves
<1>2. CASE cache' \in {cache, NoRow}
           /\ UNCHANGED <<parent, refunds, evt, effects, old, gw, hook, faults>>
  <2>1. EvtType' /\ HookSteps /\ old' = old /\ faults' \in Nat /\ old \in SUBSET Refunds
    BY <1>0, <1>2 DEF EvtType, HookSteps, RType
  <2>2. CASE Become(w, Idle)
    BY <1>0, <1>2, <2>1, <2>2, RestMoves
  <2>3. ASSUME NEW q \in CancelRefunds,
               Become(w, [Idle EXCEPT !.op = "direct", !.pc = "start", !.id = q])
        PROVE  Moves(w)
    <3> DEFINE p == [Idle EXCEPT !.op = "direct", !.pc = "start", !.id = q]
    <3>1. q \in Refunds /\ refunds[q].status # "none"
      BY DEF CancelRefunds
    <3>2. p \in Work /\ p.op = "direct" /\ p.pc = "start" /\ p.id = q
      BY Zenon, <1>0, <3>1 DEF Work, Idle
    <3> HIDE DEF p
    <3>3. /\ proc' \in [Workers -> Work] /\ proc'[w] = p
          /\ \A v \in Workers : v # w => proc'[v] = proc[v]
      BY <1>0, <2>3, <3>2, Becomes DEF p
    <3>4. WorkerMoves(w)
      BY <3>1, <3>2, <3>3 DEF WorkerMoves
    <3>5. WorkOK(w)'
      BY <1>2, <3>1, <3>2, <3>3 DEF WorkOK, Carrying
    <3>6. QED
      BY <1>2, <2>1, <3>3, <3>4, <3>5, QuietMoves
  <2>4. QED
    BY Zenon, <1>1, <2>2, <2>3, InitiateKinds
<1>3. QED
  BY Zenon, <1>1, <1>2, InitiateKinds

-----------------------------------------------------------------------------
(* The steps of no worker, and all steps together. *)

(* The gateway settles or reports, a refund ages, the cache expires.         *)
LEMMA EnvironmentMoves ==
    ASSUME Copies, NEW v \in Workers,
           \/ GatewayReportsRefund \/ CacheExpires \/ UNCHANGED rvars
           \/ \E r \in Refunds : GatewaySettles(r) \/ Age(r)
    PROVE  Moves(v)
<1>0. RType /\ WorkOK(v)
  BY DEF Copies
<1>1. CASE GatewayReportsRefund \/ CacheExpires \/ UNCHANGED rvars \/ \E r \in Refunds : Age(r)
  <2>1. UNCHANGED <<parent, refunds, gw, proc>> /\ cache' \in {cache, NoRow}
    BY <1>1 DEF GatewayReportsRefund, CacheExpires, Age, rvars
  <2>2. EvtType' /\ old' \in SUBSET Refunds /\ HookSteps /\ faults' \in Nat
    BY <1>0, <1>1 DEF GatewayReportsRefund, CacheExpires, Age, rvars, RType, EvtType, HookSteps
  <2>3. proc' \in [Workers -> Work] /\ WorkerMoves(v) /\ WorkOK(v)'
    BY <1>0, <2>1, <2>2 DEF RType, WorkerMoves, WorkOK, HookSteps
  <2>4. QED
    BY <2>1, <2>2, <2>3, QuietMoves
<1>2. ASSUME NEW r \in Refunds, GatewaySettles(r)
      PROVE  Moves(v)
  <2>1. PICK g \in {[status |-> "succeeded", times |-> gw[r].times + 1], [gw[r] EXCEPT !.status = "failed"]} :
          /\ gw' = [gw EXCEPT ![r] = g]
    BY <1>2 DEF GatewaySettles
  <2>2. /\ gw[r].status = "pending"
        /\ UNCHANGED <<parent, cache, refunds, evt, effects, old, hook, proc, faults>>
    BY <1>2 DEF GatewaySettles
  <2>3. gw \in [Refunds -> GatewayRow] /\ gw[r].times \in Nat
    BY <1>0 DEF RType, GatewayRow
  <2>4. g \in GatewayRow /\ g.times >= gw[r].times
    BY <2>3 DEF GatewayRow
  <2>5. gw' \in [Refunds -> GatewayRow]
    BY <2>1, <2>3, <2>4
  <2>6. GatewaySteps
    <3>1. \A q \in Refunds : gw[q].times \in Nat
      BY <2>3 DEF GatewayRow
    <3>2. \A q \in Refunds : gw'[q] = IF q = r THEN g ELSE gw[q]
      BY <2>1, <2>3
    <3> HIDE DEF GatewayRow
    <3>3. QED
      BY <2>2, <2>4, <3>1, <3>2 DEF GatewaySteps
  <2>7. RType'
    BY <1>0, <2>2, <2>5 DEF RType
  <2>8. /\ WorkerMoves(v) /\ ParentSteps /\ RefundSteps(v) /\ HookSteps
        /\ cache' # NoRow => AgreesWith(cache', parent')
    BY <1>0, <2>2 DEF WorkerMoves, ParentSteps, RefundSteps, HookSteps, RType, Copies
  <2>9. WorkOK(v)'
    <3>1. ASSUME proc[v].pc = "answered"
          PROVE  /\ proc[v].answer = "completed" => gw'[proc[v].id].times > 0
                 /\ proc[v].answer = "failed" /\ KeyedRefunds => gw'[proc[v].id].status = "failed"
      <4>1. /\ proc[v].id \in Refunds
            /\ proc[v].answer = "completed" => gw[proc[v].id].times > 0
            /\ proc[v].answer = "failed" /\ KeyedRefunds => gw[proc[v].id].status = "failed"
        BY <1>0, <3>1 DEF WorkOK
      <4>2. gw[proc[v].id].times \in Nat /\ gw'[proc[v].id].times \in Nat
        BY <2>3, <2>5, <4>1 DEF GatewayRow
      <4>3. QED
        BY <2>6, <4>1, <4>2 DEF GatewaySteps
    <3>2. QED
      BY <1>0, <2>2, <3>1 DEF WorkOK
  <2>10. QED
    BY <2>6, <2>7, <2>8, <2>9 DEF Moves
<1>3. QED
  BY <1>1, <1>2

(* Some worker moves in every step, or none does.                           *)
LEMMA NextMoves ==
    ASSUME Copies, [RNext]_rvars
    PROVE  \E w \in Workers : Moves(w)
<1>0. Workers # {}
  BY RefundConstants
<1>1. ASSUME NEW w \in Workers, NEW r \in Refunds,
             \/ \E amount \in 1..Amount : InitiateRequest(w, r, amount)
             \/ ResolveCancelRefund(w, r) \/ Deliver(w, r)
      PROVE  Moves(w)
  BY <1>1, RequestMoves, DeliverMoves
<1>2. ASSUME NEW w \in Workers, Proceed(w)
      PROVE  Moves(w)
  BY <1>2, LoadParentMoves, CacheFillMoves, InitiateMoves, ProcessDirectlyMoves, ReaperMoves, ClaimMoves,
     GatewayRefundMoves, PersistMoves, FinalizeMoves, FailureMoves, WebhookMoves DEF Proceed
<1>3. ASSUME NEW w \in Workers, ReaperRun(w) \/ WebhookArrives(w) \/ Crash(w) \/ StatementFails(w)
      PROVE  Moves(w)
  BY <1>3, ReaperMoves, WebhookArrivesMoves, CrashMoves, FailureMoves
<1>4. CASE \/ GatewayReportsRefund \/ CacheExpires \/ UNCHANGED rvars
           \/ \E r \in Refunds : GatewaySettles(r) \/ Age(r)
  BY <1>0, <1>4, EnvironmentMoves
<1>5. QED
  BY <1>1, <1>2, <1>3, <1>4 DEF RNext
=============================================================================
