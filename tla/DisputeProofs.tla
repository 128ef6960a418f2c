--------------------------- MODULE DisputeProofs ---------------------------
(***************************************************************************)
(* Proofs of the safety properties of Dispute: refunds and disputes of the *)
(* same payment exclude each other, a dispute is opened once, and a parent *)
(* is REFUNDED only with the money moved or a dispute lost.                *)
(*                                                                         *)
(* A handler moves the parent from a copy of its own, so the handlers join *)
(* the workers of RefundCopies: their copies agree with the row too. A     *)
(* handler that holds its dispute's lock is the only one to do so.         *)
(***************************************************************************)
EXTENDS Dispute, RefundFlowProofs, TLAPS

DisputeRow == [status : Reports \cup {"none"}, evidence : BOOLEAN]

HandlerWork ==
    [pc : {"idle", "write", "load", "fill", "loaded", "evidence"}, d : Disputes \cup {NoRow},
     status : Reports \cup {"none"}, existing : DisputeRow, snap : Transaction \cup {NoRow}]

DType ==
    /\ disputes \in [Disputes -> DisputeRow]
    /\ opened \in [Disputes -> SUBSET Nat]
    /\ closed \in [Disputes -> SUBSET Nat]
    /\ reported \in [Disputes -> SUBSET Reports]
    /\ hp \in [Handlers -> HandlerWork]

Holding == {"load", "fill", "loaded"}

(* What a handler relies on.                                                *)
HandlerOK(h) ==
    /\ hp[h].pc # "idle" => hp[h].d \in Disputes
    /\ hp[h].pc \in {"write", "load", "fill", "loaded"} => hp[h].status \in reported[hp[h].d]
    /\ hp[h].pc \in {"fill", "loaded"} => hp[h].snap \in Transaction /\ AgreesWith(hp[h].snap, parent)
    /\ hp[h].pc \in Holding =>
           /\ hp[h].existing = NoDispute => disputes[hp[h].d] = NoDispute
           /\ \A g \in Handlers : hp[g].d = hp[h].d /\ hp[g].pc \in Holding => g = h
    /\ hp[h].pc # "idle" /\ hp[h].existing # NoDispute => disputes[hp[h].d] # NoDispute
    /\ hp[h].pc = "evidence" => hp[h].existing.status # "none"

(* The parent versions of all the commits that opened, or closed, a dispute. *)
AllOf(f) == UNION {f[e] : e \in Disputes}
AllOpened == AllOf(opened)
AllClosed == AllOf(closed)

(* Each commit that closes a dispute follows one that opened one.           *)
Alternate ==
    /\ IsFiniteSet(AllOpened) /\ IsFiniteSet(AllClosed)
    /\ \A v \in AllOpened \cup AllClosed : v <= parent.version
    /\ Cardinality(AllClosed) <= Cardinality(AllOpened)
    /\ parent.status = "DISPUTED" => Cardinality(AllClosed) < Cardinality(AllOpened)
    /\ \A v \in AllClosed : \E u \in AllOpened : u < v

OpenedWithRow ==
    \A d \in Disputes :
        /\ disputes[d] = NoDispute => opened[d] = {}
        /\ disputes[d] # NoDispute => \E v \in opened[d] : opened[d] = {v}

DInv ==
    /\ Copies /\ OneOutstanding /\ OutstandingPending /\ HookBacked
    /\ DType
    /\ \A h \in Handlers : HandlerOK(h)
    /\ Alternate
    /\ OpenedWithRow
    /\ RefundedIsBacked

-----------------------------------------------------------------------------
(* Types. *)

(* A row written by an event or with evidence is a dispute's.               *)
LEMMA WrittenRow ==
    ASSUME NEW e \in DisputeRow
    PROVE  /\ \A s \in Reports : /\ [e EXCEPT !.status = s] \in DisputeRow
                                 /\ [e EXCEPT !.status = s] # NoDispute
           /\ [e EXCEPT !.evidence = TRUE] \in DisputeRow
           /\ e.status # "none" => [e EXCEPT !.evidence = TRUE] # NoDispute /\ e # NoDispute
<1>1. ASSUME NEW s \in Reports
      PROVE  [e EXCEPT !.status = s] \in DisputeRow /\ [e EXCEPT !.status = s] # NoDispute
  <2>1. [e EXCEPT !.status = s] \in DisputeRow /\ [e EXCEPT !.status = s].status = s
    BY DEF DisputeRow
  <2>2. s # "none" /\ NoDispute.status = "none"
    BY DisputeConstants DEF DisputeStatus, NoDispute
  <2>3. QED
    BY Zenon, <2>1, <2>2
<1>2. [e EXCEPT !.evidence = TRUE] \in DisputeRow /\ [e EXCEPT !.evidence = TRUE].status = e.status
  BY Zenon DEF DisputeRow
<1>3. NoDispute.status = "none"
  BY DEF NoDispute
<1>4. QED
  BY Zenon, <1>1, <1>2, <1>3

(* The types of the constants that rows and handlers start from.             *)
LEMMA FreeTypes ==
    /\ NoDispute \in DisputeRow /\ Free \in HandlerWork /\ Free.pc = "idle"
<1>1. NoDispute \in DisputeRow
  BY DEF NoDispute, DisputeRow
<1>2. QED
  BY <1>1 DEF Free, HandlerWork

(* What a handler that turns to something else carries.                     *)
LEMMA HBecomes ==
    ASSUME DType, NEW h \in Handlers, NEW p \in HandlerWork, HBecome(h, p)
    PROVE  /\ hp' \in [Handlers -> HandlerWork]
           /\ hp'[h] = p
           /\ \A g \in Handlers : g # h => hp'[g] = hp[g]
BY DEF DType, HBecome

-----------------------------------------------------------------------------
(* What a step of a handler does. *)

(* No other handler holds the dispute of h.                                 *)
Alone(h) ==
    \A g \in Handlers : g # h /\ hp[g].pc \in Holding => hp[g].d # hp[h].d

(* The row of the handler's dispute is written, or none is.                 *)
RowSteps(h) ==
    \/ disputes' = disputes
    \/ /\ Alone(h) /\ hp[h].d \in Disputes
       /\ \E x \in DisputeRow : x # NoDispute /\ disputes' = [disputes EXCEPT ![hp[h].d] = x]

(* The parent is left alone, opened as disputed, or closed.                 *)
Leaves(h) ==
    /\ UNCHANGED <<parent, opened, closed>>
    /\ disputes' = disputes \/ disputes[hp[h].d] # NoDispute

Opens(h) ==
    /\ parent.status \in {"CAPTURED", "SETTLED"} /\ parent'.status = "DISPUTED"
    /\ parent'.version = parent.version + 1
    /\ hp[h].d \in Disputes /\ disputes[hp[h].d] = NoDispute /\ disputes' # disputes
    /\ opened' = [opened EXCEPT ![hp[h].d] = @ \cup {parent'.version}]
    /\ closed' = closed

CloseOf(h) ==
    /\ parent.status = "DISPUTED" /\ parent'.status \in {"CAPTURED", "REFUNDED"}
    /\ parent'.status = "REFUNDED" => "LOST" \in reported[hp[h].d]
    /\ parent'.version = parent.version + 1
    /\ hp[h].d \in Disputes /\ disputes[hp[h].d] # NoDispute
    /\ opened' = opened
    /\ closed' = [closed EXCEPT ![hp[h].d] = @ \cup {parent'.version}]

HandlerMoves(h) ==
    /\ UNCHANGED drest
    /\ parent' \in Transaction /\ cache' \in Transaction \cup {NoRow}
    /\ cache' # NoRow => AgreesWith(cache', parent')
    /\ Leaves(h) \/ Opens(h) \/ CloseOf(h)
    /\ RowSteps(h)
    /\ \A d \in Disputes : reported[d] \subseteq reported'[d]
    /\ reported' \in [Disputes -> SUBSET Reports]
    /\ hp' \in [Handlers -> HandlerWork] /\ HandlerOK(h)'
    /\ \A g \in Handlers : g # h => hp'[g] = hp[g]
    /\ hp'[h].pc \in Holding => hp'[h].d = hp[h].d /\ Alone(h)

DCopies ==
    /\ Copies /\ DType
    /\ \A h \in Handlers : HandlerOK(h)

(* A handler past the row lock is the only one that holds it.                *)
LEMMA HoldersAlone ==
    ASSUME DType, NEW h \in Handlers, HandlerOK(h)
    PROVE  /\ hp[h].pc \in Holding => Alone(h)
           /\ ~ Locked(hp[h].d) => Alone(h)
BY DEF HandlerOK, Alone, Locked, Holding

(* A handler that ends relies on nothing.                                   *)
LEMMA EndsMove ==
    ASSUME DCopies, NEW h \in Handlers, HBecome(h, Free),
           UNCHANGED drest, reported' = reported,
           parent' \in Transaction, cache' \in Transaction \cup {NoRow},
           cache' # NoRow => AgreesWith(cache', parent'),
           Leaves(h) \/ Opens(h) \/ CloseOf(h), RowSteps(h)
    PROVE  HandlerMoves(h)
<1>0. DType /\ Free \in HandlerWork /\ Free.pc = "idle"
  BY FreeTypes DEF DCopies
<1>1. /\ hp' \in [Handlers -> HandlerWork] /\ hp'[h] = Free
      /\ \A g \in Handlers : g # h => hp'[g] = hp[g]
  BY <1>0, HBecomes
<1>2. HandlerOK(h)'
  BY <1>0, <1>1 DEF HandlerOK, Holding
<1>3. reported' \in [Disputes -> SUBSET Reports] /\ \A d \in Disputes : reported[d] \subseteq reported'[d]
  BY <1>0 DEF DType
<1>4. hp'[h].pc \notin Holding
  BY <1>0, <1>1 DEF Holding
<1>5. QED
  BY <1>1, <1>2, <1>3, <1>4 DEF HandlerMoves

(* A step that leaves the rows alone, after which h carries p.              *)
LEMMA GoesOn ==
    ASSUME DCopies, NEW h \in Handlers, NEW p \in HandlerWork, HBecome(h, p),
           UNCHANGED <<parent, disputes, opened, closed>>, UNCHANGED drest,
           cache' \in Transaction \cup {NoRow}, cache' # NoRow => AgreesWith(cache', parent),
           \A d \in Disputes : reported[d] \subseteq reported'[d],
           reported' \in [Disputes -> SUBSET Reports],
           p.pc # "idle", p.d \in Disputes,
           p.pc # "evidence" => p.status \in reported'[p.d],
           p.pc = "evidence" => p.existing.status # "none",
           p.pc \in {"fill", "loaded"} => p.snap \in Transaction /\ AgreesWith(p.snap, parent),
           p.pc \in Holding => /\ p.existing = NoDispute => disputes[p.d] = NoDispute
                               /\ p.d = hp[h].d /\ Alone(h),
           p.existing # NoDispute => disputes[p.d] # NoDispute
    PROVE  HandlerMoves(h)
<1>0. DType /\ parent \in Transaction
  BY DEF DCopies, Copies, RType
<1>1. /\ hp' \in [Handlers -> HandlerWork] /\ hp'[h] = p
      /\ \A g \in Handlers : g # h => hp'[g] = hp[g]
  BY <1>0, HBecomes
<1>2. ASSUME p.pc \in Holding, NEW g \in Handlers, hp'[g].d = p.d, hp'[g].pc \in Holding
      PROVE  g = h
  BY <1>1, <1>2 DEF Alone
<1>3. p.pc \in {"write", "load", "fill", "loaded"} => p.pc # "evidence"
  OBVIOUS
<1>4. HandlerOK(h)'
  BY <1>1, <1>2, <1>3 DEF HandlerOK
<1>5. Leaves(h) /\ RowSteps(h)
  BY DEF Leaves, RowSteps
<1>6. QED
  BY <1>0, <1>1, <1>4, <1>5 DEF HandlerMoves

-----------------------------------------------------------------------------
(* The steps of one handler. *)

(* A dispute event arrives: what is to be written was reported.              *)
LEMMA IngestMoves ==
    ASSUME DCopies, NEW h \in Handlers, NEW d \in Disputes, NEW s \in Reports, Ingest(h, d, s)
    PROVE  HandlerMoves(h)
<1>0. /\ DType /\ RType /\ disputes[d] \in DisputeRow /\ Free \in HandlerWork
      /\ cache # NoRow => AgreesWith(cache, parent)
  BY FreeTypes DEF DCopies, DType, Copies
<1> DEFINE p == [Free EXCEPT !.pc = "write", !.d = d, !.status = s, !.existing = disputes[d]]
<1>1. /\ HBecome(h, p) /\ reported' = [reported EXCEPT ![d] = @ \cup {s}]
      /\ UNCHANGED <<parent, disputes, opened, closed>> /\ UNCHANGED drest /\ cache' = cache
  BY DEF Ingest
<1>2. p \in HandlerWork /\ p.pc = "write" /\ p.d = d /\ p.status = s /\ p.existing = disputes[d]
  BY Zenon, <1>0 DEF HandlerWork, Free
<1> HIDE DEF p
<1>3. /\ reported' \in [Disputes -> SUBSET Reports] /\ s \in reported'[d]
      /\ \A e \in Disputes : reported[e] \subseteq reported'[e]
  BY <1>0, <1>1 DEF DType
<1>4. cache' \in Transaction \cup {NoRow} /\ (cache' # NoRow => AgreesWith(cache', parent))
  BY <1>0, <1>1 DEF RType
<1>5. p.pc \notin Holding
  BY <1>2 DEF Holding
<1>6. QED
  BY <1>1, <1>2, <1>3, <1>4, <1>5, GoesOn

(* Evidence is submitted: no report is claimed by it.                        *)
LEMMA EvidenceMoves ==
    ASSUME DCopies, NEW h \in Handlers, NEW d \in Disputes, SubmitEvidence(h, d)
    PROVE  HandlerMoves(h)
<1>0. /\ DType /\ RType /\ disputes[d] \in DisputeRow /\ Free \in HandlerWork
      /\ cache # NoRow => AgreesWith(cache, parent)
  BY FreeTypes DEF DCopies, DType, Copies
<1> DEFINE p == [Free EXCEPT !.pc = "evidence", !.d = d, !.existing = disputes[d]]
<1>1. /\ HBecome(h, p) /\ reported' = reported /\ CanSubmitEvidence(disputes[d].status)
      /\ UNCHANGED <<parent, disputes, opened, closed>> /\ UNCHANGED drest /\ cache' = cache
  BY DEF SubmitEvidence
<1>2. p \in HandlerWork /\ p.pc = "evidence" /\ p.d = d /\ p.existing = disputes[d]
  BY Zenon, <1>0 DEF HandlerWork, Free
<1> HIDE DEF p
<1>3. reported' \in [Disputes -> SUBSET Reports] /\ \A e \in Disputes : reported[e] \subseteq reported'[e]
  BY <1>0, <1>1 DEF DType
<1>4. cache' \in Transaction \cup {NoRow} /\ (cache' # NoRow => AgreesWith(cache', parent))
  BY <1>0, <1>1 DEF RType
<1>5. disputes[d].status # "none" /\ p.pc \notin Holding
  BY <1>1, <1>2 DEF CanSubmitEvidence, Holding
<1>6. QED
  BY <1>1, <1>2, <1>3, <1>4, <1>5, GoesOn

(* The write waits for the lock, so its handler is alone with the dispute.  *)
LEMMA WriteMoves ==
    ASSUME DCopies, NEW h \in Handlers, WriteDispute(h)
    PROVE  HandlerMoves(h)
<1>0. /\ DType /\ RType /\ hp[h] \in HandlerWork /\ HandlerOK(h)
      /\ cache # NoRow => AgreesWith(cache, parent)
  BY DEF DCopies, DType, Copies
<1>1. /\ hp[h].pc = "write" /\ ~ Locked(hp[h].d) /\ reported' = reported
      /\ UNCHANGED <<parent, disputes, opened, closed>> /\ UNCHANGED drest /\ cache' = cache
  BY DEF WriteDispute
<1>2. Alone(h)
  BY <1>0, <1>1, HoldersAlone
<1>3. reported' \in [Disputes -> SUBSET Reports] /\ \A e \in Disputes : reported[e] \subseteq reported'[e]
  BY <1>0, <1>1 DEF DType
<1>4. /\ parent' \in Transaction /\ cache' \in Transaction \cup {NoRow}
      /\ cache' # NoRow => AgreesWith(cache', parent)
  BY <1>0, <1>1 DEF RType
<1>5. CASE hp[h].existing = NoDispute /\ disputes[hp[h].d] # NoDispute
  <2>1. HBecome(h, Free)
    BY <1>5 DEF WriteDispute
  <2>2. Leaves(h) /\ RowSteps(h)
    BY <1>1 DEF Leaves, RowSteps
  <2>3. QED
    BY <1>1, <1>4, <2>1, <2>2, EndsMove
<1>6. CASE ~ (hp[h].existing = NoDispute /\ disputes[hp[h].d] # NoDispute)
  <2> DEFINE p == [hp[h] EXCEPT !.pc = "load"]
  <2>1. HBecome(h, p)
    BY <1>6 DEF WriteDispute
  <2>2. /\ p \in HandlerWork /\ p.pc = "load" /\ p.d = hp[h].d /\ p.status = hp[h].status
        /\ p.existing = hp[h].existing
    BY <1>0 DEF HandlerWork
  <2> HIDE DEF p
  <2>3. /\ hp[h].d \in Disputes /\ hp[h].status \in reported[hp[h].d]
        /\ hp[h].existing # NoDispute => disputes[hp[h].d] # NoDispute
    BY <1>0, <1>1 DEF HandlerOK
  <2>4. QED
    BY <1>1, <1>2, <1>3, <1>4, <1>6, <2>1, <2>2, <2>3, GoesOn
<1>7. QED
  BY <1>5, <1>6

(* A handler that holds its dispute loads the parent: a copy that agrees.   *)
LEMMA LoadMoves ==
    ASSUME DCopies, NEW h \in Handlers, LoadDisputed(h) \/ FillDisputed(h)
    PROVE  HandlerMoves(h)
<1>0. /\ DType /\ RType /\ hp[h] \in HandlerWork /\ HandlerOK(h)
      /\ cache # NoRow => AgreesWith(cache, parent)
  BY DEF DCopies, DType, Copies
<1>1. /\ hp[h].pc \in {"load", "fill"} /\ reported' = reported
      /\ UNCHANGED <<parent, disputes, opened, closed>> /\ UNCHANGED drest
  BY DEF LoadDisputed, FillDisputed
<1>2. hp[h].pc \in Holding
  BY <1>1 DEF Holding
<1>3. /\ hp[h].d \in Disputes /\ hp[h].status \in reported[hp[h].d] /\ Alone(h)
      /\ hp[h].existing # NoDispute => disputes[hp[h].d] # NoDispute
      /\ hp[h].existing = NoDispute => disputes[hp[h].d] = NoDispute
  BY <1>0, <1>1, <1>2, HoldersAlone DEF HandlerOK
<1>4. reported' \in [Disputes -> SUBSET Reports] /\ \A e \in Disputes : reported[e] \subseteq reported'[e]
  BY <1>0, <1>1 DEF DType
<1>5. parent \in Transaction /\ cache \in Transaction \cup {NoRow} /\ AgreesWith(parent, parent)
  <2>1. parent \in Transaction /\ cache \in Transaction \cup {NoRow}
    BY <1>0 DEF RType
  <2>2. QED
    BY <2>1, AgreesItself DEF Transaction
<1>6. ASSUME NEW p \in HandlerWork, HBecome(h, p), p.pc \in {"fill", "loaded"}, p.d = hp[h].d,
             p.status = hp[h].status, p.existing = hp[h].existing,
             p.snap \in Transaction, AgreesWith(p.snap, parent),
             cache' \in Transaction \cup {NoRow}, cache' # NoRow => AgreesWith(cache', parent)
      PROVE  HandlerMoves(h)
  BY <1>1, <1>3, <1>4, <1>6, GoesOn
<1>7. CASE LoadDisputed(h)
  <2>1. cache' = cache /\ HBecome(h, IF cache # NoRow THEN [hp[h] EXCEPT !.pc = "loaded", !.snap = cache]
                                     ELSE [hp[h] EXCEPT !.pc = "fill", !.snap = parent])
    BY <1>7 DEF LoadDisputed
  <2>2. CASE cache # NoRow
    <3> DEFINE p == [hp[h] EXCEPT !.pc = "loaded", !.snap = cache]
    <3>1. HBecome(h, p) /\ cache \in Transaction
      BY <1>5, <2>1, <2>2
    <3>2. /\ p \in HandlerWork /\ p.pc = "loaded" /\ p.d = hp[h].d /\ p.status = hp[h].status
          /\ p.existing = hp[h].existing /\ p.snap = cache
      BY Zenon, <1>0, <3>1 DEF HandlerWork
    <3> HIDE DEF p
    <3>3. QED
      BY <1>0, <1>5, <1>6, <2>1, <2>2, <3>1, <3>2
  <2>3. CASE cache = NoRow
    <3> DEFINE p == [hp[h] EXCEPT !.pc = "fill", !.snap = parent]
    <3>1. HBecome(h, p)
      BY <2>1, <2>3
    <3>2. /\ p \in HandlerWork /\ p.pc = "fill" /\ p.d = hp[h].d /\ p.status = hp[h].status
          /\ p.existing = hp[h].existing /\ p.snap = parent
      BY Zenon, <1>0, <1>5 DEF HandlerWork
    <3> HIDE DEF p
    <3>3. QED
      BY <1>5, <1>6, <2>1, <2>3, <3>1, <3>2
  <2>4. QED
    BY <2>2, <2>3
<1>8. CASE FillDisputed(h)
  <2> DEFINE p == [hp[h] EXCEPT !.pc = "loaded"]
  <2>1. hp[h].pc = "fill" /\ cache' = hp[h].snap /\ HBecome(h, p)
    BY <1>8 DEF FillDisputed
  <2>2. hp[h].snap \in Transaction /\ AgreesWith(hp[h].snap, parent)
    BY <1>0, <2>1 DEF HandlerOK
  <2>3. /\ p \in HandlerWork /\ p.pc = "loaded" /\ p.d = hp[h].d /\ p.status = hp[h].status
        /\ p.existing = hp[h].existing /\ p.snap = hp[h].snap
    BY <1>0 DEF HandlerWork
  <2> HIDE DEF p
  <2>4. QED
    BY <1>6, <2>1, <2>2, <2>3
<1>9. QED
  BY <1>7, <1>8

(* Evidence is saved by a handler that finds its dispute's lock free.       *)
LEMMA SaveMoves ==
    ASSUME DCopies, NEW h \in Handlers, SaveEvidence(h)
    PROVE  HandlerMoves(h)
<1>0. /\ DType /\ RType /\ hp[h] \in HandlerWork /\ HandlerOK(h)
      /\ cache # NoRow => AgreesWith(cache, parent)
  BY DEF DCopies, DType, Copies
<1> DEFINE x == [hp[h].existing EXCEPT !.evidence = TRUE]
<1>1. /\ hp[h].pc = "evidence" /\ ~ Locked(hp[h].d) /\ disputes' = [disputes EXCEPT ![hp[h].d] = x]
      /\ HBecome(h, Free) /\ reported' = reported /\ cache' = cache
      /\ UNCHANGED <<parent, opened, closed>> /\ UNCHANGED drest
  BY DEF SaveEvidence
<1>2. hp[h].d \in Disputes /\ hp[h].existing.status # "none" /\ hp[h].existing \in DisputeRow
  BY <1>0, <1>1 DEF HandlerOK, HandlerWork
<1>3. x \in DisputeRow /\ x # NoDispute /\ hp[h].existing # NoDispute
  BY <1>2, WrittenRow
<1> HIDE DEF x
<1>4. disputes[hp[h].d] # NoDispute
  BY <1>0, <1>1, <1>3 DEF HandlerOK
<1>5. Alone(h)
  BY <1>0, <1>1, HoldersAlone
<1>6. Leaves(h) /\ RowSteps(h)
  BY Zenon, <1>1, <1>2, <1>3, <1>4, <1>5 DEF Leaves, RowSteps
<1>7. /\ parent' \in Transaction /\ cache' \in Transaction \cup {NoRow}
      /\ cache' # NoRow => AgreesWith(cache', parent')
  BY <1>0, <1>1 DEF RType
<1>8. QED
  BY <1>1, <1>6, <1>7, EndsMove

(* A transaction is rolled back: neither row has changed.                    *)
LEMMA RollbackMoves ==
    ASSUME DCopies, NEW h \in Handlers, RollbackDispute(h)
    PROVE  HandlerMoves(h)
<1>0. DType /\ RType /\ (cache # NoRow => AgreesWith(cache, parent))
  BY DEF DCopies, Copies
<1>1. /\ HBecome(h, Free) /\ reported' = reported /\ cache' \in {NoRow, cache}
      /\ UNCHANGED <<parent, disputes, opened, closed>> /\ UNCHANGED drest
  BY DEF RollbackDispute
<1>2. Leaves(h) /\ RowSteps(h)
  BY <1>1 DEF Leaves, RowSteps
<1>3. /\ parent' \in Transaction /\ cache' \in Transaction \cup {NoRow}
      /\ cache' # NoRow => AgreesWith(cache', parent')
  BY <1>0, <1>1 DEF RType
<1>4. QED
  BY <1>1, <1>2, <1>3, EndsMove

(* The legal transitions into and out of a dispute.                         *)
LEMMA DisputeTransitions ==
    ASSUME NEW s \in Status
    PROVE  isValidTransition(s, "DISPUTED") => s \in {"CAPTURED", "SETTLED"}
BY DEF Status, isValidTransition, transitionTable

(* A dispute's update moves only a DISPUTED payment, and only LOST refunds   *)
(* it.                                                                       *)
LEMMA UpdatesFromDisputed ==
    ASSUME NEW status, NEW s
    PROVE  LET to == transitionParentOnDisputeUpdate(status, s)
           IN  /\ to \in {"none", "CAPTURED", "REFUNDED"}
               /\ to # "none" => s = "DISPUTED"
               /\ to = "REFUNDED" => status = "LOST"
BY DEF transitionParentOnDisputeUpdate

(* The commit: the row, and with it the parent if it opens or closes.       *)
LEMMA CommitMoves ==
    ASSUME DCopies, NEW h \in Handlers, CommitDispute(h)
    PROVE  HandlerMoves(h)
<1>0. /\ DType /\ RType /\ hp[h] \in HandlerWork /\ HandlerOK(h)
      /\ cache # NoRow => AgreesWith(cache, parent)
      /\ parent \in Transaction /\ cache \in Transaction \cup {NoRow}
  BY DEF DCopies, DType, Copies, RType
<1> DEFINE d == hp[h].d
           x == [hp[h].existing EXCEPT !.status = hp[h].status]
<1>1. /\ hp[h].pc = "loaded" /\ disputes' = [disputes EXCEPT ![d] = x]
      /\ HBecome(h, Free) /\ reported' = reported /\ UNCHANGED drest
      /\ \/ ParentNext(h) = "none"
         \/ isValidTransition(hp[h].snap.status, ParentNext(h)) /\ HandlerCurrent(h)
  BY DEF CommitDispute
<1>2. /\ d \in Disputes /\ hp[h].status \in reported[d]
      /\ hp[h].snap \in Transaction /\ AgreesWith(hp[h].snap, parent)
      /\ hp[h].existing = NoDispute => disputes[d] = NoDispute
      /\ hp[h].existing # NoDispute => disputes[d] # NoDispute
      /\ hp[h].existing \in DisputeRow
  BY <1>0, <1>1 DEF HandlerOK, HandlerWork, Holding
<1>3. hp[h].status \in Reports /\ Alone(h)
  <2>1. reported[d] \subseteq Reports
    BY <1>0, <1>2 DEF DType
  <2>2. hp[h].pc \in Holding
    BY <1>1 DEF Holding
  <2>3. QED
    BY <1>0, <1>2, <2>1, <2>2, HoldersAlone
<1>4. x \in DisputeRow /\ x # NoDispute
  BY Zenon, <1>2, <1>3, WrittenRow
<1> HIDE DEF x
<1>5. RowSteps(h)
  BY Zenon, <1>1, <1>2, <1>3, <1>4 DEF RowSteps
<1>6. hp[h].existing = NoDispute => disputes' # disputes
  BY <1>0, <1>1, <1>2, <1>4 DEF DType
<1>7. CASE ParentNext(h) = "none"
  <2>1. UNCHANGED <<parent, cache, opened, closed>>
    BY <1>7 DEF CommitDispute
  <2>2. hp[h].existing # NoDispute
    BY <1>7 DEF ParentNext
  <2>3. Leaves(h)
    BY <1>2, <2>1, <2>2 DEF Leaves
  <2>4. QED
    BY <1>0, <1>1, <1>5, <2>1, <2>3, EndsMove
<1>8. CASE ParentNext(h) # "none"
  <2>1. /\ isValidTransition(hp[h].snap.status, ParentNext(h)) /\ HandlerCurrent(h)
        /\ UpdateParent(ParentNext(h))
    BY <1>1, <1>8 DEF CommitDispute
  <2>2. hp[h].snap = parent /\ parent.status \in Status
    BY <1>0, <1>2, <2>1 DEF HandlerCurrent, AgreesWith, Transaction
  <2>3. CASE hp[h].existing = NoDispute
    <3>1. ParentNext(h) = "DISPUTED"
      BY <2>3 DEF ParentNext
    <3>2. /\ opened' = [opened EXCEPT ![d] = @ \cup {parent'.version}] /\ closed' = closed
          /\ UpdateParent("DISPUTED") /\ isValidTransition(parent.status, "DISPUTED")
      BY <2>1, <2>2, <3>1 DEF CommitDispute
    <3>3. parent.status \in {"CAPTURED", "SETTLED"} /\ "DISPUTED" \in Status
      BY <2>2, <3>2, DisputeTransitions DEF Status
    <3>4. /\ parent' \in Transaction /\ parent'.status = "DISPUTED"
          /\ parent'.version = parent.version + 1 /\ cache' = NoRow
      BY <1>0, <3>2, <3>3, UpdateParentSteps
    <3>5. Opens(h)
      BY <1>2, <1>6, <2>3, <3>2, <3>3, <3>4 DEF Opens
    <3>6. QED
      BY <1>1, <1>5, <3>4, <3>5, EndsMove
  <2>4. CASE hp[h].existing # NoDispute
    <3>1. ParentNext(h) = transitionParentOnDisputeUpdate(hp[h].status, parent.status)
      BY <2>2, <2>4 DEF ParentNext
    <3>2. /\ ParentNext(h) \in {"CAPTURED", "REFUNDED"} /\ parent.status = "DISPUTED"
          /\ ParentNext(h) = "REFUNDED" => hp[h].status = "LOST"
      BY <1>8, <3>1, UpdatesFromDisputed
    <3>3. closed' = [closed EXCEPT ![d] = @ \cup {parent'.version}] /\ opened' = opened
      BY <3>2 DEF CommitDispute
    <3>4. ParentNext(h) \in Status
      BY <3>2 DEF Status
    <3>5. /\ parent' \in Transaction /\ parent'.status = ParentNext(h)
          /\ parent'.version = parent.version + 1 /\ cache' = NoRow
      BY <1>0, <2>1, <3>4, UpdateParentSteps
    <3>6. CloseOf(h)
      BY <1>2, <2>4, <3>2, <3>3, <3>5 DEF CloseOf
    <3>7. QED
      BY <1>1, <1>5, <3>5, <3>6, EndsMove
  <2>5. QED
    BY <2>3, <2>4
<1>9. QED
  BY <1>7, <1>8

-----------------------------------------------------------------------------
(* A step of a handler keeps the invariant. *)

(* What the row and the parent may do, whichever of its steps h takes.      *)
LEMMA HandlerEffects ==
    ASSUME DCopies, NEW h \in Handlers, HandlerMoves(h)
    PROVE  /\ ParentSteps
           /\ disputes' \in [Disputes -> DisputeRow]
           /\ \A e \in Disputes : disputes[e] # NoDispute => disputes'[e] # NoDispute
           /\ \A e \in Disputes : disputes'[e] = disputes[e] \/ (e = hp[h].d /\ Alone(h))
           /\ disputes' # disputes => hp[h].d \in Disputes /\ disputes'[hp[h].d] # NoDispute
<1>0. disputes \in [Disputes -> DisputeRow]
  BY DEF DCopies, DType
<1>1. ParentSteps
  BY DEF HandlerMoves, Leaves, Opens, CloseOf, ParentSteps
<1>2. CASE disputes' = disputes
  BY <1>0, <1>1, <1>2
<1>3. CASE disputes' # disputes
  <2>1. PICK x \in DisputeRow : /\ x # NoDispute /\ disputes' = [disputes EXCEPT ![hp[h].d] = x]
                                /\ Alone(h) /\ hp[h].d \in Disputes
    BY <1>3 DEF HandlerMoves, RowSteps
  <2>2. \A e \in Disputes : disputes'[e] = IF e = hp[h].d THEN x ELSE disputes[e]
    BY <1>0, <2>1
  <2>3. disputes' \in [Disputes -> DisputeRow]
    BY <1>0, <2>1
  <2>4. QED
    BY <1>1, <2>1, <2>2, <2>3
<1>4. QED
  BY <1>2, <1>3

(* The other handlers keep what they rely on.                               *)
LEMMA OtherHandlers ==
    ASSUME DCopies, NEW h \in Handlers, HandlerMoves(h), NEW g \in Handlers
    PROVE  HandlerOK(g)'
<1>0. /\ DType /\ RType /\ HandlerOK(g) /\ parent.version \in Nat
      /\ \A c \in Transaction : c.version \in Nat
  BY DEF DCopies, Copies, RType, Transaction
<1>1. /\ \A f \in Handlers : f # h => hp'[f] = hp[f]
      /\ hp'[h].pc \in Holding => hp'[h].d = hp[h].d /\ Alone(h)
      /\ \A d \in Disputes : reported[d] \subseteq reported'[d]
  BY DEF HandlerMoves
<1>2. CASE g = h
  BY <1>2 DEF HandlerMoves
<1>3. CASE g # h
  <2>1. hp'[g] = hp[g]
    BY <1>1, <1>3
  <2>2. hp[g].pc # "idle" => hp[g].d \in Disputes
    BY <1>0 DEF HandlerOK
  <2>3. hp[g].pc \in {"write", "load", "fill", "loaded"} => hp[g].status \in reported'[hp[g].d]
    BY <1>0, <1>1, <2>2 DEF HandlerOK
  <2>4. ASSUME hp[g].pc \in {"fill", "loaded"}
        PROVE  hp[g].snap \in Transaction /\ AgreesWith(hp[g].snap, parent')
    <3>1. hp[g].snap \in Transaction /\ AgreesWith(hp[g].snap, parent)
      BY <1>0, <2>4 DEF HandlerOK
    <3>2. parent' = parent \/ parent'.version = parent.version + 1
      BY HandlerEffects DEF ParentSteps
    <3>3. QED
      BY <1>0, <3>1, <3>2, AgreesKept
  <2>5. ASSUME hp[g].pc \in Holding
        PROVE  /\ hp[g].existing = NoDispute => disputes'[hp[g].d] = NoDispute
               /\ \A f \in Handlers : hp'[f].d = hp[g].d /\ hp'[f].pc \in Holding => f = g
    <3>1. /\ hp[g].existing = NoDispute => disputes[hp[g].d] = NoDispute
          /\ \A f \in Handlers : hp[f].d = hp[g].d /\ hp[f].pc \in Holding => f = g
      BY <1>0, <2>5 DEF HandlerOK
    <3>2. hp[g].d \in Disputes
      BY <2>2, <2>5 DEF Holding
    <3>3. Alone(h) => hp[g].d # hp[h].d
      BY <1>3, <2>5 DEF Alone
    <3>4. disputes'[hp[g].d] = disputes[hp[g].d]
      BY <3>2, <3>3, HandlerEffects
    <3>5. QED
      BY <1>1, <3>1, <3>3, <3>4
  <2>6. hp[g].pc # "idle" /\ hp[g].existing # NoDispute => disputes'[hp[g].d] # NoDispute
    BY <1>0, <2>2, HandlerEffects DEF HandlerOK
  <2>7. hp[g].pc = "evidence" => hp[g].existing.status # "none"
    BY <1>0 DEF HandlerOK
  <2>8. QED
    BY <2>1, <2>2, <2>3, <2>4, <2>5, <2>6, <2>7 DEF HandlerOK
<1>4. QED
  BY <1>2, <1>3

(* A handler disturbs no worker.                                            *)
LEMMA WorkersUndisturbed ==
    ASSUME DCopies, NEW h \in Handlers, HandlerMoves(h)
    PROVE  Copies'
<1>0. /\ Copies /\ RType /\ parent.version \in Nat
      /\ \A c \in Transaction : c.version \in Nat
  BY DEF DCopies, Copies, RType, Transaction
<1>1. /\ refunds' = refunds /\ evt' = evt /\ effects' = effects /\ old' = old /\ gw' = gw
      /\ hook' = hook /\ proc' = proc /\ faults' = faults
  BY DEF HandlerMoves, drest
<1>2. RType'
  BY <1>0, <1>1 DEF HandlerMoves, RType
<1>3. ASSUME NEW w \in Workers
      PROVE  WorkOK(w)'
  <2>1. WorkOK(w)
    BY <1>0 DEF Copies
  <2>2. ASSUME proc[w].pc \in {"fill", "loaded", "call", "answered"}
        PROVE  proc[w].snap \in Transaction /\ AgreesWith(proc[w].snap, parent')
    <3>1. proc[w].snap \in Transaction /\ AgreesWith(proc[w].snap, parent)
      BY <2>1, <2>2 DEF WorkOK
    <3>2. parent' = parent \/ parent'.version = parent.version + 1
      BY HandlerEffects DEF ParentSteps
    <3>3. QED
      BY <1>0, <3>1, <3>2, AgreesKept
  <2>3. QED
    BY <1>1, <2>1, <2>2 DEF WorkOK
<1>4. ASSUME NEW r \in Refunds
      PROVE  RefundOK(r)'
  BY <1>0, <1>1 DEF Copies, RefundOK
<1>5. QED
  BY <1>2, <1>3, <1>4 DEF HandlerMoves, Copies

(* A dispute is opened on a parent that is not being refunded; the refunds  *)
(* and the gateway stay as they are.                                        *)
LEMMA RefundsUndisturbed ==
    ASSUME DInv, NEW h \in Handlers, HandlerMoves(h)
    PROVE  OneOutstanding' /\ OutstandingPending' /\ HookBacked' /\ RefundedIsBacked'
<1>0. DCopies /\ OneOutstanding /\ OutstandingPending /\ HookBacked /\ RefundedIsBacked
  BY DEF DInv, DCopies
<1>1. refunds' = refunds /\ gw' = gw /\ hook' = hook
  BY DEF HandlerMoves, drest
<1>2. Moved' = Moved
  BY <1>1, SumsAre
<1>3. OneOutstanding' /\ HookBacked'
  BY <1>0, <1>1, <1>2 DEF OneOutstanding, HookBacked
<1>4. \A d \in Disputes : reported[d] \subseteq reported'[d]
  BY DEF HandlerMoves
<1>5. CASE Leaves(h)
  BY <1>0, <1>1, <1>2, <1>3, <1>4, <1>5 DEF Leaves, OutstandingPending, RefundedIsBacked
<1>6. CASE Opens(h)
  <2>1. parent.status \in {"CAPTURED", "SETTLED"} /\ parent'.status = "DISPUTED"
    BY <1>6 DEF Opens
  <2>2. \A r \in Refunds : refunds[r].status \notin Outstanding
    BY <1>0, <2>1 DEF OutstandingPending
  <2>3. QED
    BY <1>1, <1>3, <2>1, <2>2 DEF OutstandingPending, RefundedIsBacked
<1>7. CASE CloseOf(h)
  <2>1. /\ parent.status = "DISPUTED" /\ hp[h].d \in Disputes
        /\ parent'.status = "REFUNDED" => "LOST" \in reported[hp[h].d]
    BY <1>7 DEF CloseOf
  <2>2. \A r \in Refunds : refunds[r].status \notin Outstanding
    BY <1>0, <2>1 DEF OutstandingPending
  <2>3. OutstandingPending'
    BY <1>1, <2>2 DEF OutstandingPending
  <2>4. RefundedIsBacked'
    BY <1>4, <2>1 DEF RefundedIsBacked
  <2>5. QED
    BY <1>3, <2>3, <2>4
<1>8. QED
  BY <1>5, <1>6, <1>7 DEF HandlerMoves

-----------------------------------------------------------------------------
(* The commits that open and close disputes alternate. *)

(* One dispute's set gains v; a set gains the element v.                    *)
Adds(f, g, d, v) ==
    /\ g[d] = f[d] \cup {v}
    /\ \A e \in Disputes : e # d => g[e] = f[e]

OneMore(A, B, v) ==
    /\ B = A \cup {v} /\ IsFiniteSet(B)
    /\ Cardinality(B) = Cardinality(A) + 1

(* One more version in one dispute's set is one more in all of them.        *)
LEMMA UnionGrows ==
    ASSUME NEW f, NEW g, NEW d \in Disputes, NEW v, Adds(f, g, d, v),
           IsFiniteSet(AllOf(f)), v \notin AllOf(f)
    PROVE  OneMore(AllOf(f), AllOf(g), v)
<1>1. \A e \in Disputes : g[e] = IF e = d THEN f[e] \cup {v} ELSE f[e]
  BY DEF Adds
<1>2. AllOf(g) = AllOf(f) \cup {v}
  <2>1. ASSUME NEW u
        PROVE  u \in AllOf(g) <=> u \in AllOf(f) \/ u = v
    <3>1. (u \in AllOf(g) <=> \E e \in Disputes : u \in g[e]) /\ (u \in AllOf(f) <=> \E e \in Disputes : u \in f[e])
      BY DEF AllOf
    <3>2. \A e \in Disputes : u \in g[e] <=> u \in f[e] \/ (e = d /\ u = v)
      BY Zenon, <1>1
    <3>3. QED
      BY <3>1, <3>2
  <2>2. QED
    BY <2>1
<1>3. IsFiniteSet(AllOf(f) \cup {v}) /\ Cardinality(AllOf(f) \cup {v}) = Cardinality(AllOf(f)) + 1
  BY FS_AddElement
<1>4. QED
  BY <1>2, <1>3 DEF OneMore

(* What the alternation says of the sets and the parent.                    *)
AlternateIn(o, c, p) ==
    /\ IsFiniteSet(o) /\ IsFiniteSet(c)
    /\ \A v \in o \cup c : v <= p.version
    /\ Cardinality(c) <= Cardinality(o)
    /\ p.status = "DISPUTED" => Cardinality(c) < Cardinality(o)
    /\ \A v \in c : \E u \in o : u < v

(* The alternation of openings and closings, before and after a step.        *)
LEMMA AlternateIs ==
    /\ Alternate <=> AlternateIn(AllOpened, AllClosed, parent)
    /\ Alternate' <=> AlternateIn(AllOpened', AllClosed', parent')
BY DEF Alternate, AlternateIn

(* Openings and closings are told apart by the payment's versions.           *)
LEMMA VersionsNat ==
    ASSUME DType
    PROVE  AllOpened \subseteq Nat /\ AllClosed \subseteq Nat
BY DEF DType, AllOpened, AllClosed, AllOf

(* A handler opens only what is closed, and closes only what is open.        *)
LEMMA AlternateKept ==
    ASSUME DCopies, Alternate, NEW h \in Handlers, HandlerMoves(h)
    PROVE  /\ Alternate'
           /\ opened' \in [Disputes -> SUBSET Nat] /\ closed' \in [Disputes -> SUBSET Nat]
<1>0. /\ DType /\ opened \in [Disputes -> SUBSET Nat] /\ closed \in [Disputes -> SUBSET Nat]
      /\ parent.version \in Nat
      /\ AllOpened \subseteq Nat /\ AllClosed \subseteq Nat
  BY VersionsNat DEF DCopies, DType, Copies, RType, Transaction
<1>1. AlternateIn(AllOpened, AllClosed, parent)
  BY AlternateIs
<1>2. Cardinality(AllOpened) \in Nat /\ Cardinality(AllClosed) \in Nat
  BY <1>1, FS_CardinalityType DEF AlternateIn
<1> DEFINE v == parent.version + 1
<1>3. v \in Nat /\ v \notin AllOpened /\ v \notin AllClosed /\ \A u \in AllOpened \cup AllClosed : u < v
  <2>1. \A u \in AllOpened \cup AllClosed : u \in Nat /\ u <= parent.version
    BY <1>0, <1>1 DEF AlternateIn
  <2>2. \A u \in AllOpened \cup AllClosed : u < v
    BY <1>0, <2>1
  <2>3. QED
    BY <1>0, <2>1, <2>2
<1>4. CASE Leaves(h)
  <2>1. UNCHANGED <<parent, opened, closed>>
    BY <1>4 DEF Leaves
  <2>2. AllOpened' = AllOpened /\ AllClosed' = AllClosed
    BY <2>1 DEF AllOpened, AllClosed
  <2>3. QED
    BY <1>0, <1>1, <2>1, <2>2, AlternateIs
<1>5. CASE Opens(h)
  <2>1. /\ parent.status \in {"CAPTURED", "SETTLED"} /\ parent'.status = "DISPUTED"
        /\ parent'.version = v /\ hp[h].d \in Disputes /\ closed' = closed
        /\ opened' = [opened EXCEPT ![hp[h].d] = @ \cup {v}]
    BY <1>5 DEF Opens
  <2> HIDE DEF v
  <2>2. AllClosed' = AllClosed
    BY <2>1 DEF AllClosed
  <2>3. /\ opened' \in [Disputes -> SUBSET Nat]
        /\ AllOpened' = AllOpened \cup {v} /\ IsFiniteSet(AllOpened')
        /\ Cardinality(AllOpened') = Cardinality(AllOpened) + 1
    <3>1. IsFiniteSet(AllOpened)
      BY <1>1 DEF AlternateIn
    <3>2. AllOpened = AllOf(opened) /\ AllOpened' = AllOf(opened')
      BY DEF AllOpened
    <3>3. opened' \in [Disputes -> SUBSET Nat] /\ Adds(opened, opened', hp[h].d, v)
      BY <1>0, <1>3, <2>1 DEF Adds
    <3>4. OneMore(AllOpened, AllOpened', v)
      BY <1>3, <2>1, <3>1, <3>2, <3>3, UnionGrows
    <3>5. QED
      BY <3>3, <3>4 DEF OneMore
  <2>4. \A u \in AllOpened' \cup AllClosed' : u <= parent'.version
    <3>1. \A u \in AllOpened \cup AllClosed : u \in Nat /\ u < v
      BY <1>0, <1>3
    <3>2. QED
      BY <1>3, <2>1, <2>2, <2>3, <3>1
  <2>5. Cardinality(AllClosed') < Cardinality(AllOpened')
    <3>1. Cardinality(AllClosed) <= Cardinality(AllOpened)
      BY <1>1 DEF AlternateIn
    <3> DEFINE n == Cardinality(AllOpened)
               m == Cardinality(AllClosed)
    <3>2. n \in Nat /\ m \in Nat /\ m <= n
      BY <1>2, <3>1
    <3>3. Cardinality(AllOpened') = n + 1 /\ Cardinality(AllClosed') = m
      BY <2>2, <2>3
    <3> HIDE DEF n, m
    <3>4. QED
      BY <3>2, <3>3
  <2>6. \A w \in AllClosed' : \E u \in AllOpened' : u < w
    BY <1>1, <2>2, <2>3 DEF AlternateIn
  <2>7. IsFiniteSet(AllClosed')
    BY <1>1, <2>2 DEF AlternateIn
  <2>8. Cardinality(AllClosed') <= Cardinality(AllOpened')
    BY <1>2, <2>2, <2>3, <2>5
  <2>9. AlternateIn(AllOpened', AllClosed', parent')
    BY <2>3, <2>4, <2>5, <2>6, <2>7, <2>8 DEF AlternateIn
  <2>10. QED
    BY <1>0, <2>1, <2>3, <2>9, AlternateIs
<1>6. CASE CloseOf(h)
  <2>1. /\ parent.status = "DISPUTED" /\ parent'.status \in {"CAPTURED", "REFUNDED"}
        /\ parent'.version = v /\ hp[h].d \in Disputes /\ opened' = opened
        /\ closed' = [closed EXCEPT ![hp[h].d] = @ \cup {v}]
    BY <1>6 DEF CloseOf
  <2> HIDE DEF v
  <2>2. AllOpened' = AllOpened
    BY <2>1 DEF AllOpened
  <2>3. /\ closed' \in [Disputes -> SUBSET Nat]
        /\ AllClosed' = AllClosed \cup {v} /\ IsFiniteSet(AllClosed')
        /\ Cardinality(AllClosed') = Cardinality(AllClosed) + 1
    <3>1. IsFiniteSet(AllClosed)
      BY <1>1 DEF AlternateIn
    <3>2. AllClosed = AllOf(closed) /\ AllClosed' = AllOf(closed')
      BY DEF AllClosed
    <3>3. closed' \in [Disputes -> SUBSET Nat] /\ Adds(closed, closed', hp[h].d, v)
      BY <1>0, <1>3, <2>1 DEF Adds
    <3>4. OneMore(AllClosed, AllClosed', v)
      BY <1>3, <2>1, <3>1, <3>2, <3>3, UnionGrows
    <3>5. QED
      BY <3>3, <3>4 DEF OneMore
  <2>4. \A u \in AllOpened' \cup AllClosed' : u <= parent'.version
    <3>1. \A u \in AllOpened \cup AllClosed : u \in Nat /\ u < v
      BY <1>0, <1>3
    <3>2. QED
      BY <1>3, <2>1, <2>2, <2>3, <3>1
  <2>5. Cardinality(AllClosed) < Cardinality(AllOpened)
    BY <1>1, <2>1 DEF AlternateIn
  <2>6. Cardinality(AllClosed') <= Cardinality(AllOpened')
    BY <1>2, <2>2, <2>3, <2>5
  <2>7. AllOpened # {}
    BY <1>2, <2>5, FS_EmptySet
  <2>8. \A w \in AllClosed' : \E u \in AllOpened' : u < w
    BY <1>1, <1>3, <2>2, <2>3, <2>7 DEF AlternateIn
  <2>9. IsFiniteSet(AllOpened') /\ parent'.status # "DISPUTED"
    BY <1>1, <2>1, <2>2 DEF AlternateIn
  <2>10. AlternateIn(AllOpened', AllClosed', parent')
    BY <2>3, <2>4, <2>6, <2>8, <2>9 DEF AlternateIn
  <2>11. QED
    BY <1>0, <2>1, <2>3, <2>10, AlternateIs
<1>7. QED
  BY <1>4, <1>5, <1>6 DEF HandlerMoves

(* A dispute that has no row has not been opened; one that has, once.       *)
LEMMA OpenedKept ==
    ASSUME DCopies, OpenedWithRow, NEW h \in Handlers, HandlerMoves(h)
    PROVE  OpenedWithRow'
<1>0. opened \in [Disputes -> SUBSET Nat]
  BY DEF DCopies, DType
<1>1. CASE Leaves(h) \/ CloseOf(h)
  <2>1. opened' = opened /\ (disputes' = disputes \/ disputes[hp[h].d] # NoDispute)
    BY <1>1 DEF Leaves, CloseOf
  <2>2. \A e \in Disputes : disputes'[e] = NoDispute <=> disputes[e] = NoDispute
    BY <2>1, HandlerEffects
  <2>3. QED
    BY <2>1, <2>2 DEF OpenedWithRow
<1>2. CASE Opens(h)
  <2> DEFINE v == parent'.version
  <2>1. /\ hp[h].d \in Disputes /\ disputes[hp[h].d] = NoDispute /\ disputes' # disputes
        /\ opened' = [opened EXCEPT ![hp[h].d] = @ \cup {v}]
    BY <1>2 DEF Opens
  <2> HIDE DEF v
  <2>2. opened[hp[h].d] = {} /\ disputes'[hp[h].d] # NoDispute
    BY <2>1, HandlerEffects DEF OpenedWithRow
  <2>3. opened'[hp[h].d] = {v} /\ \A e \in Disputes : e # hp[h].d => opened'[e] = opened[e]
    BY <1>0, <2>1, <2>2
  <2>4. \A e \in Disputes : e # hp[h].d => disputes'[e] = disputes[e]
    BY HandlerEffects
  <2>5. ASSUME NEW e \in Disputes
        PROVE  /\ disputes'[e] = NoDispute => opened'[e] = {}
               /\ disputes'[e] # NoDispute => \E u \in opened'[e] : opened'[e] = {u}
    <3>1. CASE e = hp[h].d
      BY <2>2, <2>3, <3>1
    <3>2. CASE e # hp[h].d
      BY <2>3, <2>4, <3>2 DEF OpenedWithRow
    <3>3. QED
      BY <3>1, <3>2
  <2>6. QED
    BY <2>5 DEF OpenedWithRow
<1>3. QED
  BY <1>1, <1>2 DEF HandlerMoves

-----------------------------------------------------------------------------
(* A step of the refunds keeps the invariant. *)

(* The refunds never make a parent disputed.                                *)
LEMMA RefundsDoNotDispute ==
    ASSUME NEW w \in Workers, Kinds(w), parent'.status = "DISPUTED"
    PROVE  parent.status = "DISPUTED"
<1>1. CASE parent' = parent
  BY <1>1
<1>2. CASE Inserts(w)
  BY <1>2 DEF Inserts, UpdateParent
<1>3. CASE WebhookTurns(w)
  BY <1>3 DEF WebhookTurns
<1>4. CASE Closes(w)
  <2>1. PICK x \in RefundRow : ClosesAs(w, x)
    BY <1>4 DEF Closes
  <2>2. parent'.status = transitionParentOnRefundResult(proc[w].id, x.status, parent.status)
    BY <2>1 DEF ClosesAs
  <2>3. QED
    BY <2>2 DEF transitionParentOnRefundResult
<1>5. parent' = parent \/ Inserts(w) \/ WebhookTurns(w) \/ Closes(w)
  BY DEF Kinds, Advances, GatewayTurns, HookReports, Quiet
<1>6. QED
  BY <1>1, <1>2, <1>3, <1>4, <1>5

(* A handler keeps what it relies on while the parent moves.                *)
LEMMA HandlersUndisturbed ==
    ASSUME DCopies, ParentSteps, UNCHANGED <<disputes, reported, hp>>, NEW h \in Handlers
    PROVE  HandlerOK(h)'
<1>0. /\ HandlerOK(h) /\ parent.version \in Nat
      /\ \A c \in Transaction : c.version \in Nat
  BY DEF DCopies, Copies, RType, Transaction
<1>1. ASSUME hp[h].pc \in {"fill", "loaded"}
      PROVE  hp[h].snap \in Transaction /\ AgreesWith(hp[h].snap, parent')
  <2>1. hp[h].snap \in Transaction /\ AgreesWith(hp[h].snap, parent)
    BY <1>0, <1>1 DEF HandlerOK
  <2>2. QED
    BY <1>0, <2>1, AgreesKept DEF ParentSteps
<1>2. QED
  BY Zenon, <1>0, <1>1 DEF HandlerOK

(* A step of the refunds leaves the disputes as they are.                    *)
LEMMA RefundStepKeeps ==
    ASSUME DInv, [RNext]_rvars, UNCHANGED <<disputes, opened, closed, reported, hp>>
    PROVE  DInv'
<1>0. /\ Copies /\ DCopies /\ DType /\ OneOutstanding /\ OutstandingPending /\ HookBacked
      /\ Alternate /\ OpenedWithRow /\ RefundedIsBacked /\ Amount \in Nat
  BY RefundConstants DEF DInv, DCopies
<1>1. Copies' /\ GatewaySteps /\ ParentSteps
  BY <1>0, CopiesKept
<1>2. RType' /\ \A r \in Refunds : RefundOK(r)'
  BY <1>1 DEF Copies
<1>3. PICK w \in Workers : Kinds(w)
  BY <1>0, StepKinds
<1>4. OneOutstanding' /\ OutstandingPending'
  BY <1>0, <1>3, OutstandingKept
<1>5. /\ HookBacked'
      /\ parent'.status = "REFUNDED" => parent.status = "REFUNDED" \/ Moved' >= Amount
      /\ Moved' >= Moved
  BY <1>0, <1>1, <1>2, <1>3, BackedKept
<1>6. Moved \in Nat /\ Moved' \in Nat
  BY <1>0, <1>1, <1>2, <1>3, MovedGrows
<1>7. RefundedIsBacked'
  BY <1>0, <1>5, <1>6 DEF RefundedIsBacked
<1>8. DType' /\ OpenedWithRow'
  BY <1>0 DEF DType, OpenedWithRow
<1>9. ASSUME NEW h \in Handlers
      PROVE  HandlerOK(h)'
  BY <1>0, <1>1, HandlersUndisturbed
<1>10. Alternate'
  <2>1. AllOpened' = AllOpened /\ AllClosed' = AllClosed
    BY DEF AllOpened, AllClosed
  <2>2. AlternateIn(AllOpened, AllClosed, parent) /\ AllOpened \subseteq Nat /\ AllClosed \subseteq Nat
    BY <1>0, AlternateIs, VersionsNat
  <2>3. parent'.status = "DISPUTED" => parent.status = "DISPUTED"
    BY <1>3, RefundsDoNotDispute
  <2>4. parent.version \in Nat /\ parent'.version \in Nat /\ parent.version <= parent'.version
    <3>1. parent \in Transaction /\ parent' \in Transaction
      BY <1>0, <1>2 DEF Copies, RType
    <3>2. parent.version \in Nat /\ parent'.version \in Nat
      BY <3>1 DEF Transaction
    <3>3. QED
      BY <1>1, <3>2 DEF ParentSteps
  <2>5. \A v \in AllOpened \cup AllClosed : v <= parent'.version
    <3>1. \A v \in AllOpened \cup AllClosed : v \in Nat /\ v <= parent.version
      BY <2>2 DEF AlternateIn
    <3>2. QED
      BY <2>4, <3>1
  <2>6. AlternateIn(AllOpened, AllClosed, parent')
    BY <2>2, <2>3, <2>5 DEF AlternateIn
  <2>7. QED
    BY <2>1, <2>6, AlternateIs
<1>11. QED
  BY <1>1, <1>4, <1>5, <1>7, <1>8, <1>9, <1>10 DEF DInv

-----------------------------------------------------------------------------
(* The inductive invariant and the theorems. *)

(* The invariant holds at first.                                             *)
LEMMA InitDInv ==
    ASSUME DInit
    PROVE  DInv
<1>1. RInv
  BY InitRInv DEF DInit
<1>2. Copies /\ OneOutstanding /\ OutstandingPending /\ HookBacked /\ RefundedBacked
  BY <1>1 DEF RInv
<1>3. DType
  BY FreeTypes DEF DInit, DType
<1>4. \A h \in Handlers : HandlerOK(h)
  BY FreeTypes DEF DInit, HandlerOK, Holding
<1>5. OpenedWithRow
  BY DEF DInit, OpenedWithRow
<1>6. RefundedIsBacked
  BY <1>2 DEF RefundedBacked, RefundedIsBacked
<1>7. Alternate
  <2>1. AllOpened = {} /\ AllClosed = {}
    BY DEF DInit, AllOpened, AllClosed, AllOf
  <2>2. parent.status # "DISPUTED"
    BY RefundConstants DEF DInit, RInit
  <2>3. IsFiniteSet({}) /\ Cardinality({}) = 0
    BY FS_EmptySet
  <2>4. AlternateIn({}, {}, parent)
    BY <2>2, <2>3 DEF AlternateIn
  <2>5. QED
    BY <2>1, <2>4, AlternateIs
<1>8. QED
  BY <1>2, <1>3, <1>4, <1>5, <1>6, <1>7 DEF DInv

(* Every step keeps it, those of the refunds and those of the disputes.      *)
LEMMA NextDInv ==
    ASSUME DInv, [DNext]_dvars
    PROVE  DInv'
<1>0. DCopies /\ Alternate /\ OpenedWithRow
  BY DEF DInv, DCopies
<1>1. CASE RNext /\ UNCHANGED <<disputes, opened, closed, reported, hp, events>>
  BY <1>1, RefundStepKeeps
<1>2. CASE UNCHANGED dvars
  <2>1. UNCHANGED rvars /\ UNCHANGED <<disputes, opened, closed, reported, hp>>
    BY <1>2 DEF dvars
  <2>2. QED
    BY <2>1, RefundStepKeeps
<1>3. ASSUME NEW h \in Handlers,
             \/ WriteDispute(h) \/ LoadDisputed(h) \/ FillDisputed(h)
             \/ CommitDispute(h) \/ RollbackDispute(h) \/ SaveEvidence(h)
             \/ \E d \in Disputes :
                   \/ SubmitEvidence(h, d)
                   \/ \E status \in Reports : Ingest(h, d, status)
      PROVE  DInv'
  <2>1. HandlerMoves(h)
    BY <1>0, <1>3, WriteMoves, LoadMoves, CommitMoves, RollbackMoves, SaveMoves, EvidenceMoves, IngestMoves
  <2>2. Copies'
    BY <1>0, <2>1, WorkersUndisturbed
  <2>3. OneOutstanding' /\ OutstandingPending' /\ HookBacked' /\ RefundedIsBacked'
    BY <2>1, RefundsUndisturbed
  <2>4. /\ Alternate'
        /\ opened' \in [Disputes -> SUBSET Nat] /\ closed' \in [Disputes -> SUBSET Nat]
    BY <1>0, <2>1, AlternateKept
  <2>5. OpenedWithRow'
    BY <1>0, <2>1, OpenedKept
  <2>6. \A g \in Handlers : HandlerOK(g)'
    BY <1>0, <2>1, OtherHandlers
  <2>7. disputes' \in [Disputes -> DisputeRow]
    BY <1>0, <2>1, HandlerEffects
  <2>8. DType'
    BY <2>1, <2>4, <2>7 DEF HandlerMoves, DType
  <2>9. QED
    BY <2>2, <2>3, <2>4, <2>5, <2>6, <2>8 DEF DInv
<1>4. QED
  BY <1>1, <1>2, <1>3 DEF DNext

(* The invariant of refunds and disputes together holds in every behaviour  *)
(* of the two services.                                                     *)
THEOREM DisputeInvariant == DSpec => []DInv
<1>1. DInit => DInv
  BY InitDInv
<1>2. DInv /\ [DNext]_dvars => DInv'
  BY NextDInv
<1>3. QED
  BY <1>1, <1>2, PTL DEF DSpec

(* A disputed payment is not being refunded: the parent's version, checked  *)
(* by CreateDispute and by the refund service, is enough to exclude them.   *)
THEOREM DisputesExcludeRefunds == DSpec => []DisputeExcludesRefund
<1>1. DInv => DisputeExcludesRefund
  BY DEF DInv, OutstandingPending, DisputeExcludesRefund
<1>2. QED
  BY <1>1, DisputeInvariant, PTL

(* A dispute is opened once, in the commit that writes its row, and closes  *)
(* the parent no more often than disputes have been opened on it.           *)
THEOREM DisputesOpenOnce == DSpec => []DisputeOpenedOnce
<1>1. ASSUME DInv
      PROVE  DisputeOpenedOnce
  <2>0. Alternate /\ OpenedWithRow /\ DType
    BY <1>1 DEF DInv
  <2>1. ASSUME NEW d \in Disputes
        PROVE  Cardinality(opened[d]) = IF disputes[d] = NoDispute THEN 0 ELSE 1
    <3>1. CASE disputes[d] = NoDispute
      BY <2>0, <3>1, FS_EmptySet DEF OpenedWithRow
    <3>2. CASE disputes[d] # NoDispute
      <4>1. PICK v \in opened[d] : opened[d] = {v}
        BY <2>0, <3>2 DEF OpenedWithRow
      <4>2. QED
        BY Zenon, <3>2, <4>1, FS_Singleton
    <3>3. QED
      BY <3>1, <3>2
  <2>2. ASSUME NEW d \in Disputes
        PROVE  Cardinality(closed[d]) <= Cardinality(AllOpened)
    <3>1. closed[d] \subseteq AllClosed
      BY DEF AllClosed, AllOf
    <3>2. IsFiniteSet(AllClosed) /\ IsFiniteSet(AllOpened) /\ Cardinality(AllClosed) <= Cardinality(AllOpened)
      BY <2>0 DEF Alternate
    <3>3. /\ Cardinality(closed[d]) <= Cardinality(AllClosed)
          /\ IsFiniteSet(closed[d])
      BY <3>1, <3>2, FS_Subset
    <3>4. /\ Cardinality(closed[d]) \in Nat /\ Cardinality(AllClosed) \in Nat
          /\ Cardinality(AllOpened) \in Nat
      BY <3>2, <3>3, FS_CardinalityType
    <3>5. QED
      BY <3>2, <3>3, <3>4
  <2>3. ASSUME NEW d \in Disputes, NEW v \in closed[d]
        PROVE  \E e \in Disputes : \E u \in opened[e] : u < v
    <3>1. v \in AllClosed
      BY <2>3 DEF AllClosed, AllOf
    <3>2. PICK u \in AllOpened : u < v
      BY <2>0, <3>1 DEF Alternate
    <3>3. \E e \in Disputes : u \in opened[e]
      BY <3>2 DEF AllOpened, AllOf
    <3>4. QED
      BY <3>2, <3>3
  <2>4. AllOpened = UNION {opened[e] : e \in Disputes}
    BY DEF AllOpened, AllOf
  <2>5. QED
    BY <2>1, <2>2, <2>3, <2>4 DEF DisputeOpenedOnce
<1>2. QED
  BY <1>1, DisputeInvariant, PTL

(* A parent is REFUNDED only if the gateway moved all of its money or       *)
(* reported a dispute LOST, whichever service recorded it.                  *)
THEOREM RefundedParentsBacked == DSpec => []RefundedIsBacked
<1>1. DInv => RefundedIsBacked
  BY DEF DInv
<1>2. QED
  BY <1>1, DisputeInvariant, PTL
=============================================================================
