------------------------------ MODULE Dispute ------------------------------
(***************************************************************************)
(* The disputes of a transaction whose refunds are in RefundFlow: the      *)
(* gateway's dispute events, each of which CreateDispute records together  *)
(* with the parent's new status in one transaction, and the evidence a     *)
(* tenant submits. Refunds and disputes move the same parent row, each     *)
(* from a copy it loaded through the cache.                                *)
(***************************************************************************)
EXTENDS RefundFlow

CONSTANTS
    Handlers,     \* requests that ingest a dispute event or submit evidence
    Disputes,     \* gateway dispute ids
    Reports,      \* the statuses the gateway reports
    MaxEvents     \* bound: dispute events delivered, duplicates included

(* The statuses a dispute may have. *)
DisputeStatus == {"NEEDS_RESPONSE", "UNDER_REVIEW", "WON", "LOST", "ACCEPTED", "EXPIRED"}

ASSUME DisputeConstants == Reports \subseteq DisputeStatus

VARIABLES
    disputes,   \* the disputes table
    opened,     \* the parent versions of the DISPUTE_CREATED events, per dispute
    closed,     \* the parent versions of the events that close a dispute
    reported,   \* the statuses the gateway has reported, per dispute
    hp,         \* what each handler is doing
    events      \* dispute events delivered

dvars == <<rvars, disputes, opened, closed, reported, hp, events>>
drest == <<refunds, evt, effects, old, gw, hook, proc, faults>>

NoDispute == [status |-> "none", evidence |-> FALSE]

Free == [pc |-> "idle", d |-> NoRow, status |-> "none", existing |-> NoDispute, snap |-> NoRow]

DInit ==
    /\ RInit
    /\ disputes = [d \in Disputes |-> NoDispute]
    /\ opened = [d \in Disputes |-> {}]
    /\ closed = [d \in Disputes |-> {}]
    /\ reported = [d \in Disputes |-> {}]
    /\ hp = [h \in Handlers |-> Free]
    /\ events = 0

HBecome(h, p) == hp' = [hp EXCEPT ![h] = p]

(* The transaction of CreateDispute holds the row, or the unique key, of    *)
(* its dispute from its first write to its commit.                          *)
Locked(d) == \E h \in Handlers : hp[h].d = d /\ hp[h].pc \in {"load", "fill", "loaded"}

-----------------------------------------------------------------------------
(* IngestGatewayDispute: an event arrives, in any order and again, since    *)
(* dispute events are not deduplicated; GetByGatewayDisputeID.              *)
Ingest(h, d, status) ==
    /\ hp[h] = Free
    /\ events < MaxEvents
    /\ events' = events + 1
    /\ reported' = [reported EXCEPT ![d] = @ \cup {status}]
    /\ HBecome(h, [Free EXCEPT !.pc = "write", !.d = d, !.status = status, !.existing = disputes[d]])
    /\ UNCHANGED <<parent, cache, drest, disputes, opened, closed>>

(* store.Update or store.Create, uncommitted: waits for the lock; a row     *)
(* that has appeared meanwhile violates the unique key.                     *)
WriteDispute(h) ==
    LET d == hp[h].d IN
    /\ hp[h].pc = "write"
    /\ ~ Locked(d)
    /\ IF hp[h].existing = NoDispute /\ disputes[d] # NoDispute
       THEN HBecome(h, Free)
       ELSE HBecome(h, [hp[h] EXCEPT !.pc = "load"])
    /\ UNCHANGED <<parent, cache, drest, disputes, opened, closed, reported, events>>

(* GetByID of the parent, through the cache. *)
LoadDisputed(h) ==
    /\ hp[h].pc = "load"
    /\ HBecome(h, IF cache # NoRow THEN [hp[h] EXCEPT !.pc = "loaded", !.snap = cache]
                  ELSE [hp[h] EXCEPT !.pc = "fill", !.snap = parent])
    /\ UNCHANGED <<parent, cache, drest, disputes, opened, closed, reported, events>>

FillDisputed(h) ==
    /\ hp[h].pc = "fill"
    /\ cache' = hp[h].snap
    /\ HBecome(h, [hp[h] EXCEPT !.pc = "loaded"])
    /\ UNCHANGED <<parent, drest, disputes, opened, closed, reported, events>>

(* The parent's next status: none when the transaction is left alone.       *)
transitionParentOnDisputeUpdateSwapped(status, from) ==
    CASE from = "DISPUTED" /\ status = "WON"  -> "REFUNDED"
      [] from = "DISPUTED" /\ status = "LOST" -> "CAPTURED"
      [] OTHER                                -> "none"

transitionParentOnDisputeUpdate(status, from) ==
    CASE from = "DISPUTED" /\ status = "WON"  -> "CAPTURED"
      [] from = "DISPUTED" /\ status = "LOST" -> "REFUNDED"
      [] OTHER                                -> "none"

ParentNext(h) ==
    IF hp[h].existing = NoDispute THEN "DISPUTED"
    ELSE transitionParentOnDisputeUpdate(hp[h].status, hp[h].snap.status)

HandlerCurrentUnchecked(h) == TRUE

HandlerCurrent(h) == hp[h].snap.version = parent.version

(* CreateDispute commits: the whole dispute row as it was read, with the    *)
(* event's status; the parent, if its transition is legal and its version   *)
(* is the one loaded; the events.                                           *)
CommitDispute(h) ==
    LET d == hp[h].d IN
    /\ hp[h].pc = "loaded"
    /\ \/ ParentNext(h) = "none"
       \/ isValidTransition(hp[h].snap.status, ParentNext(h)) /\ HandlerCurrent(h)
    /\ disputes' = [disputes EXCEPT ![d] = [hp[h].existing EXCEPT !.status = hp[h].status]]
    /\ IF ParentNext(h) = "none" THEN UNCHANGED <<parent, cache>> ELSE UpdateParent(ParentNext(h))
    /\ opened' = IF ParentNext(h) = "DISPUTED"
                 THEN [opened EXCEPT ![d] = @ \cup {parent'.version}] ELSE opened
    /\ closed' = IF ParentNext(h) \in {"CAPTURED", "REFUNDED"}
                 THEN [closed EXCEPT ![d] = @ \cup {parent'.version}] ELSE closed
    /\ HBecome(h, Free)
    /\ UNCHANGED <<drest, reported, events>>

(* Otherwise everything is rolled back and the gateway is answered 500. *)
RollbackParentOnly(h) ==
    /\ hp[h].pc = "loaded"
    /\ ParentNext(h) # "none"
    /\ ~ (isValidTransition(hp[h].snap.status, ParentNext(h)) /\ HandlerCurrent(h))
    /\ disputes' = [disputes EXCEPT ![hp[h].d] = [hp[h].existing EXCEPT !.status = hp[h].status]]
    /\ cache' = NoRow
    /\ HBecome(h, Free)
    /\ UNCHANGED <<parent, drest, opened, closed, reported, events>>

RollbackDispute(h) ==
    /\ hp[h].pc = "loaded"
    /\ ParentNext(h) # "none"
    /\ LET legal == isValidTransition(hp[h].snap.status, ParentNext(h))
       IN  /\ ~ (legal /\ HandlerCurrent(h))
           /\ cache' = IF legal THEN NoRow ELSE cache
    /\ HBecome(h, Free)
    /\ UNCHANGED <<parent, drest, disputes, opened, closed, reported, events>>

(* SubmitEvidence, in no transaction: it reads the dispute, adds the        *)
(* evidence, and the first time writes the whole row back.                  *)
CanSubmitEvidence(status) == status \in {"NEEDS_RESPONSE", "UNDER_REVIEW"}

SubmitEvidence(h, d) ==
    /\ hp[h] = Free
    /\ CanSubmitEvidence(disputes[d].status)
    /\ ~ disputes[d].evidence
    /\ HBecome(h, [Free EXCEPT !.pc = "evidence", !.d = d, !.existing = disputes[d]])
    /\ UNCHANGED <<parent, cache, drest, disputes, opened, closed, reported, events>>

SaveEvidence(h) ==
    /\ hp[h].pc = "evidence"
    /\ ~ Locked(hp[h].d)
    /\ disputes' = [disputes EXCEPT ![hp[h].d] = [hp[h].existing EXCEPT !.evidence = TRUE]]
    /\ HBecome(h, Free)
    /\ UNCHANGED <<parent, cache, drest, opened, closed, reported, events>>

-----------------------------------------------------------------------------
DNext ==
    \/ RNext /\ UNCHANGED <<disputes, opened, closed, reported, hp, events>>
    \/ \E h \in Handlers :
          \/ WriteDispute(h) \/ LoadDisputed(h) \/ FillDisputed(h)
          \/ CommitDispute(h) \/ RollbackDispute(h) \/ SaveEvidence(h)
          \/ \E d \in Disputes :
                \/ SubmitEvidence(h, d)
                \/ \E status \in Reports : Ingest(h, d, status)

DSpec == DInit /\ [][DNext]_dvars

(* Refunds are scheduled as in RefundFlow; a handler that has started goes  *)
(* on.                                                                      *)
HandlerSteps(h) ==
    WriteDispute(h) \/ LoadDisputed(h) \/ FillDisputed(h) \/ CommitDispute(h) \/ RollbackDispute(h)

FairDSpec == DSpec /\ RFairness /\ \A h \in Handlers : WF_dvars(HandlerSteps(h))

-----------------------------------------------------------------------------
(* A disputed payment is not being refunded, and a refund is not started on *)
(* one: the two services exclude each other through the parent's version    *)
(* alone, whatever stale copies they work from.                             *)
DisputeExcludesRefund ==
    parent.status = "DISPUTED" => \A r \in Refunds : refunds[r].status \notin Outstanding

(* However often and in whatever order its events come, a dispute is opened *)
(* once, with its row and the parent's DISPUTED in the same commit, and     *)
(* closes the parent at most once.                                          *)
DisputeOpenedOnce ==
    \A d \in Disputes :
        /\ Cardinality(opened[d]) = IF disputes[d] = NoDispute THEN 0 ELSE 1
        /\ Cardinality(closed[d]) <= Cardinality(UNION {opened[e] : e \in Disputes})
        /\ \A v \in closed[d] : \E e \in Disputes : \E u \in opened[e] : u < v

(* A parent is REFUNDED only if the gateway has moved all of its money, or  *)
(* has reported a dispute of it LOST.                                       *)
RefundedIsBacked ==
    parent.status = "REFUNDED" =>
        \/ Moved >= Amount
        \/ \E d \in Disputes : "LOST" \in reported[d]
=============================================================================
