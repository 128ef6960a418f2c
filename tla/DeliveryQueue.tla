---------------------------- MODULE DeliveryQueue ----------------------------
(***************************************************************************)
(* The service's three delivery queues, which share one scheme: rows are   *)
(* inserted with the change they announce; workers of several processes    *)
(* claim a batch of rows, deliver them one by one and mark each. A claim   *)
(* goes stale after a time, so that a row of a dead worker is claimed      *)
(* again; a slow worker may then mark a row it no longer holds.            *)
(*                                                                         *)
(*   outbox        the relay: a handler per event type, then the publisher *)
(*   webhook       tenant webhook deliveries                               *)
(*   notification  e-mail and SMS                                          *)
(*                                                                         *)
(* A behaviour is about one queue. An exhausted outbox event becomes a     *)
(* dead letter, which an operator may replay as a new event.               *)
(***************************************************************************)
EXTENDS Naturals, FiniteSets, FiniteSetsExt

CONSTANTS
    Queues,       \* the queues considered: their kind, the ids of the rows the
                  \* service writes, the ids left for replays, the attempts allowed
    Workers,      \* relay or job processes
    Operators,    \* users of the dead-letter API
    BatchSize,
    MaxFaults     \* bound: crashes and failed statements

ASSUME QueueConstants ==
    /\ \A q \in Queues : /\ q.kind \in {"outbox", "webhook", "notification"}
                         /\ q.written \subseteq Nat \ {0}
                         /\ q.spare \subseteq Nat \ ({0} \cup q.written)
                         /\ q.maxAttempts \in Nat \ {0}
    /\ BatchSize \in Nat \ {0}
    /\ MaxFaults \in Nat

VARIABLES
    queue,     \* the queue of this behaviour
    row,       \* the table: status, attempts, and whether locked_at is set or too old
    noTemplate, \* notifications whose template is not configured
    handled,   \* the handlers that have taken an event
    letter,    \* outbox_dead_letters, by the event they are about
    origin,    \* the event a row was first written as
    proc,      \* the workers
    replaying, \* the dead letter each operator has read as unresolved, or 0
    faults

qvars == <<queue, row, noTemplate, handled, letter, origin, proc, replaying, faults>>

kind == queue.kind
Events == UNION {q.written \cup q.spare : q \in Queues}     \* numbered by created_at
NoRow == [status |-> "none", attempts |-> 0, lock |-> "none"]
Fresh == [NoRow EXCEPT !.status = "PENDING"]
NoClaim == [id |-> 0, attempts |-> 0]
Idle == [batch |-> {}, cur |-> NoClaim, route |-> 1, result |-> "none"]

(* Routes of an event: its own handler and the publisher of all events.     *)
Routes == IF kind = "outbox" THEN 2 ELSE 1

QInit ==
    /\ queue \in Queues
    /\ row = [e \in Events |-> NoRow]
    /\ noTemplate \in IF kind = "notification" THEN SUBSET queue.written ELSE {{}}
    /\ handled = [e \in Events |-> {}]
    /\ letter = [e \in Events |-> "none"]
    /\ origin = [e \in Events |-> e]
    /\ proc = [w \in Workers |-> Idle]
    /\ replaying = [o \in Operators |-> 0]
    /\ faults = 0

Fault == faults < MaxFaults /\ faults' = faults + 1
Become(w, p) == proc' = [proc EXCEPT ![w] = p]

(* The worker turns to a row of its batch, or is done with it. A            *)
(* notification without a template is passed over, its row left as claimed. *)
Proceed(w, batch) ==
    LET ready == {c \in batch : c.id \notin noTemplate}
    IN  \/ ready = {} /\ Become(w, Idle)
        \/ \E c \in ready : Become(w, [Idle EXCEPT !.batch = ready \ {c}, !.cur = c])

-----------------------------------------------------------------------------
(* Write, WriteDelivery, Dispatch: a row inserted within the transaction of *)
(* the change it announces, due at once.                                    *)
Enqueue(e) ==
    /\ e \in queue.written
    /\ row[e] = NoRow
    /\ row' = [row EXCEPT ![e] = Fresh]
    /\ UNCHANGED <<queue, noTemplate, handled, letter, origin, proc, replaying, faults>>

(* What each queue's poll claims, and in which order: the outbox takes a    *)
(* row back from a worker that has held it too long, the others a row whose *)
(* lock is old. (Deliveries are ordered by next_attempt_at, of which the    *)
(* ids are all that is kept.)                                               *)
PollPending(r) == r.status = "PENDING" \/ (r.status = "PUBLISHING" /\ r.lock = "stale")
ListPending(r) == r.status = "PENDING" /\ r.lock # "fresh"
ListPendingNotifications(r) == r.status = "PENDING" /\ r.lock # "fresh"

ClaimableOnce(e) == row[e].status = "PENDING" /\ row[e].lock = "none"

Claimable(e) ==
    \/ kind = "outbox" /\ PollPending(row[e])
    \/ kind = "webhook" /\ ListPending(row[e])
    \/ kind = "notification" /\ ListPendingNotifications(row[e])

Before(d, e) ==
    \/ kind = "outbox" /\ row[d].attempts < row[e].attempts
    \/ (kind = "outbox" => row[d].attempts = row[e].attempts) /\ d < e

Batch ==
    LET C == {e \in Events : Claimable(e)}
    IN  {e \in C : Cardinality({d \in C : Before(d, e)}) < BatchSize}

Poll(w) ==
    /\ proc[w] = Idle
    /\ Batch # {}
    /\ row' = [e \in Events |->
                  IF e \notin Batch THEN row[e]
                  ELSE [row[e] EXCEPT !.lock = "fresh",
                                      !.status = IF kind = "outbox" THEN "PUBLISHING" ELSE @]]
    /\ Proceed(w, {[id |-> e, attempts |-> row[e].attempts] : e \in Batch})
    /\ UNCHANGED <<queue, noTemplate, handled, letter, origin, replaying, faults>>

(* One handler of the event. Router.Publish goes on to the next route only  *)
(* when this one succeeded; a failure starts again from the first.          *)
Reach(w) == handled' = [handled EXCEPT ![proc[w].cur.id] = @ \cup {proc[w].route}]
Routed(w) ==
    LET p == proc[w]
    IN  Become(w, IF p.route = Routes THEN [p EXCEPT !.result = "ok"] ELSE [p EXCEPT !.route = @ + 1])

PublishPastErrors(w) ==
    /\ proc[w].cur # NoClaim
    /\ proc[w].result = "none"
    /\ Reach(w) \/ UNCHANGED handled
    /\ Routed(w)
    /\ UNCHANGED <<queue, row, noTemplate, letter, origin, replaying, faults>>

Publish(w) ==
    /\ proc[w].cur # NoClaim
    /\ proc[w].result = "none"
    /\ \/ Reach(w) /\ Routed(w)
       \/ UNCHANGED handled /\ Become(w, [proc[w] EXCEPT !.result = "failed"])
    /\ UNCHANGED <<queue, row, noTemplate, letter, origin, replaying, faults>>

-----------------------------------------------------------------------------
(* Marking. The outbox statements touch only a row that is PUBLISHING; the  *)
(* others update their row whatever has become of it.                       *)
Done(r) == [r EXCEPT !.status = "DONE", !.lock = "none"]

MarkPublished(r) == IF r.status = "PUBLISHING" THEN Done(r) ELSE r
MarkDelivered(r) == Done(r)
MarkNotificationSent(r) == Done(r)

MarkDone(r) == CASE kind = "outbox"       -> MarkPublished(r)
                 [] kind = "webhook"      -> MarkDelivered(r)
                 [] kind = "notification" -> MarkNotificationSent(r)

(* A failed delivery. The delay of next_attempt_at has no length here: a    *)
(* row may be claimed again at any later time. A webhook row takes its      *)
(* attempts from the claim, not from the row; a notification's are tested   *)
(* before they are counted.                                                 *)
Again(attempts, giveUp) ==
    [status |-> IF giveUp THEN "FAILED" ELSE "PENDING", attempts |-> attempts, lock |-> "none"]

MarkEventFailed(r) == IF r.status = "PUBLISHING" THEN Again(r.attempts + 1, FALSE) ELSE r
MarkDeliveryFailed(c) == Again(c.attempts + 1, c.attempts + 1 >= queue.maxAttempts)
MarkNotificationFailed(r) == Again(r.attempts + 1, r.attempts >= queue.maxAttempts)

MarkFailed(r, c) == CASE kind = "outbox"       -> MarkEventFailed(r)
                      [] kind = "webhook"      -> MarkDeliveryFailed(c)
                      [] kind = "notification" -> MarkNotificationFailed(r)

(* processEvent gives up on what the claim said of the attempts.            *)
Exhausted(c) == kind = "outbox" /\ c.attempts + 1 >= queue.maxAttempts

MarkExhaustedAnyState(r) == r.status # "none"
MarkExhausted(r) == r.status = "PUBLISHING"

Mark(w) ==
    LET p == proc[w]
        e == p.cur.id
    IN  /\ \/ /\ p.result = "ok"
              /\ row' = [row EXCEPT ![e] = MarkDone(@)]
              /\ UNCHANGED letter
           \/ /\ p.result = "failed"
              /\ ~ Exhausted(p.cur)
              /\ row' = [row EXCEPT ![e] = MarkFailed(@, p.cur)]
              /\ UNCHANGED letter
           \/ /\ p.result = "failed"
              /\ Exhausted(p.cur)
              /\ MarkExhausted(row[e])
              /\ row' = [row EXCEPT ![e].status = "FAILED", ![e].lock = "none"]
              /\ letter' = [letter EXCEPT ![e] = "open"]
           \/ /\ p.result = "failed"
              /\ Exhausted(p.cur)
              /\ ~ MarkExhausted(row[e])
              /\ UNCHANGED <<row, letter>>
        /\ Proceed(w, proc[w].batch)
        /\ UNCHANGED <<queue, noTemplate, handled, origin, replaying, faults>>

(* The marking statement fails: the error is logged, the row stays claimed. *)
MarkLost(w) ==
    /\ proc[w].result # "none"
    /\ Fault
    /\ Proceed(w, proc[w].batch)
    /\ UNCHANGED <<queue, row, noTemplate, handled, letter, origin, replaying>>

Crash(w) ==
    /\ proc[w] # Idle
    /\ Fault
    /\ Become(w, Idle)
    /\ UNCHANGED <<queue, row, noTemplate, handled, letter, origin, replaying>>

(* Time passes: a claim gets older than the claim TTL.                      *)
LockExpires(e) ==
    /\ row[e].lock = "fresh"
    /\ row' = [row EXCEPT ![e].lock = "stale"]
    /\ UNCHANGED <<queue, noTemplate, handled, letter, origin, proc, replaying, faults>>

-----------------------------------------------------------------------------
(* ReplayDeadLetter reads the letter without locking it, then inserts a new *)
(* event and resolves the letter in one transaction.                        *)
ReadLetter(o, e) ==
    /\ replaying[o] = 0
    /\ letter[e] = "open"
    /\ replaying' = [replaying EXCEPT ![o] = e]
    /\ UNCHANGED <<queue, row, noTemplate, handled, letter, origin, proc, faults>>

ResolveOnly(o) ==
    /\ replaying[o] # 0
    /\ letter' = [letter EXCEPT ![replaying[o]] = "resolved"]
    /\ replaying' = [replaying EXCEPT ![o] = 0]
    /\ UNCHANGED <<queue, row, noTemplate, handled, origin, proc, faults>>

ReplayDeadLetter(o) ==
    /\ replaying[o] # 0
    /\ \E n \in queue.spare :
          /\ row[n] = NoRow
          /\ row' = [row EXCEPT ![n] = Fresh]
          /\ origin' = [origin EXCEPT ![n] = origin[replaying[o]]]
    /\ letter' = [letter EXCEPT ![replaying[o]] = "resolved"]
    /\ replaying' = [replaying EXCEPT ![o] = 0]
    /\ UNCHANGED <<queue, noTemplate, handled, proc, faults>>

Work(w) == Poll(w) \/ Publish(w) \/ Mark(w)

QNext ==
    \/ \E e \in Events : Enqueue(e) \/ LockExpires(e)
    \/ \E w \in Workers : Work(w) \/ MarkLost(w) \/ Crash(w)
    \/ \E o \in Operators : ReplayDeadLetter(o) \/ \E e \in Events : ReadLetter(o, e)

QSpec == QInit /\ [][QNext]_qvars

(* Workers keep polling and finish what they took; time passes.             *)
FairQSpec ==
    /\ QSpec
    /\ \A w \in Workers : WF_qvars(Work(w))
    /\ \A e \in Events : WF_qvars(LockExpires(e))

-----------------------------------------------------------------------------
(* A row is done only when every handler of its event has been reached.     *)
DoneIsDelivered == \A e \in Events : row[e].status = "DONE" => handled[e] = 1..Routes

(* No event of the outbox is lost: some row of its line is delivered, still *)
(* to be delivered, or a dead letter that waits for an operator.            *)
NothingLost ==
    kind = "outbox" =>
        \A e \in queue.written : row[e] # NoRow =>
            \E d \in Events :
                /\ origin[d] = e
                /\ \/ row[d].status \in {"PENDING", "PUBLISHING", "DONE"}
                   \/ letter[d] = "open"

(* A dead letter exists exactly for the events the relay gave up, and what  *)
(* a slow worker does later neither revives nor redelivers such an event    *)
(* as its own row, nor reopens a resolved letter.                           *)
OutboxFinal ==
    [][ kind = "outbox" =>
          \A e \in Events :
             /\ row[e].status \in {"DONE", "FAILED"} => row'[e].status = row[e].status
             /\ (row'[e].status = "FAILED") <=> (letter'[e] # "none")
             /\ letter[e] = "resolved" => letter'[e] = "resolved"
      ]_qvars

(* Every row ends delivered or given up and stays so: no crash, stale claim *)
(* or slow worker makes the queue retry for ever. A notification whose      *)
(* template is missing is the exception: it is claimed again and again.     *)
Settled(e) == row[e].status \in {"DONE", "FAILED"}
SettlesForGood ==
    \A e \in Events : (row[e] # NoRow /\ e \notin noTemplate) ~> [](Settled(e))
=============================================================================
