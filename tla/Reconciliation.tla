--------------------------- MODULE Reconciliation ---------------------------
(***************************************************************************)
(* Reconciliation of one job: a runner (a scheduler pass, or a call of the *)
(* run endpoint) loads the job, marks it RUNNING, fetches the gateway's    *)
(* settlement report page by page, loads the transactions, compares, and   *)
(* records the mismatches. Nothing locks the job, and payments, the        *)
(* gateway's books and other runners move between its steps.               *)
(*                                                                         *)
(* A transaction's gateway reference is its own name. A row of the books   *)
(* has the reference, amount and fee of a payment and whether it is        *)
(* captured; for Stripe, whose books hold other balance transactions too,  *)
(* a row that is not a charge is one that is not captured.                 *)
(***************************************************************************)
EXTENDS Naturals, Sequences, FiniteSets

CONSTANTS
    Runners,
    Txns,           \* the transactions of the tenant, gateway and period
    Rows,           \* the rows the gateway may book
    PageSize, MaxPages,
    MaxRows,        \* bound on the books
    MaxMoves,       \* bound on payments and rows that change during the job
    MaxRunFaults    \* bound: crashes and failed statements

ASSUME ReconciliationConstants ==
    /\ PageSize \in Nat \ {0} /\ MaxPages \in Nat \ {0}
    /\ MaxRows \in Nat /\ MaxMoves \in Nat /\ MaxRunFaults \in Nat
    /\ \A r \in Rows : r.amount \in Nat /\ r.fee \in Nat

VARIABLES
    job,        \* reconciliation_jobs: the job
    recorded,   \* reconciliation_entries: what each runner inserted
    provider, books, txn,     \* the gateway, its rows (newest first), the transactions
    runner,     \* the runners
    touched,    \* history: the references whose payment changed
    moves, runFaults

recVars == <<job, recorded, provider, books, txn, runner, touched, moves, runFaults>>

Null == "NULL"
NoFee == 0            \* a nil fee
Idle == [pc |-> "idle", report |-> <<>>, pages |-> 0, next |-> 0, txns |-> <<>>]

(* CreateJob: the insert leaves the column error NULL. No code creates a job *)
(* triggered by "system"; such a row comes from outside, its error empty.    *)
CreateJob(by, kind, txns) ==
    [status |-> "PENDING", by |-> by, kind |-> kind, txns |-> txns, count |-> 0,
     error |-> IF by = "ops" THEN Null ELSE ""]

RecInit ==
    /\ \E by \in {"ops", "system"} :
         job \in {CreateJob(by, "batch", Txns)} \cup {CreateJob(by, "single", {t}) : t \in Txns}
    /\ recorded = [r \in Runners |-> {}]
    /\ provider \in {"stripe", "razorpay"}
    /\ books \in UNION {[1 .. n -> Rows] : n \in 0 .. MaxRows}
    /\ txn \in [Txns -> {"PROCESSING", "CAPTURED"}]
    /\ runner = [r \in Runners |-> Idle]
    /\ touched = {} /\ moves = 0 /\ runFaults = 0

-----------------------------------------------------------------------------
(* Comparing. Every transaction has the amount 1, and a fee of 1 of its own. *)
Amount == 1
Fees == 1

isInternalSuccess(status) == status \in {"CAPTURED", "SETTLED"}

gatewayStatus(row) == IF row.captured THEN "succeeded" ELSE "pending"

(* compareTransaction: the type of the first difference found.               *)
compareTransactionOneWay(status, row) ==
    IF isInternalSuccess(status) /\ gatewayStatus(row) # "succeeded" THEN "STATUS_MISMATCH"
    ELSE IF row.amount # Amount THEN "AMOUNT_MISMATCH"
    ELSE IF row.fee # NoFee /\ row.fee # Fees THEN "FEE_MISMATCH"
    ELSE "none"

compareTransaction(status, row) ==
    IF isInternalSuccess(status) # (gatewayStatus(row) = "succeeded") THEN "STATUS_MISMATCH"
    ELSE IF row.amount # Amount THEN "AMOUNT_MISMATCH"
    ELSE IF row.fee # NoFee /\ row.fee # Fees THEN "FEE_MISMATCH"
    ELSE "none"

NoTxn == "uuid.Nil"

(* The rows of the report: Stripe's charges, all of Razorpay's payments.     *)
reported(gateway, rows) == SelectSeq(rows, LAMBDA row : gateway = "razorpay" \/ row.captured)

(* The entries of a job: one for each row of the report that differs from    *)
(* its transaction, one for each row that (in a batch) has no transaction,   *)
(* one for each transaction without a row. An entry is told from the others  *)
(* by its row, row 0 for the last kind.                                      *)
rowEntries(kind, rows, loaded) ==
    {[at |-> i, txn |-> IF rows[i].ref \in DOMAIN loaded THEN rows[i].ref ELSE NoTxn,
      type |-> IF rows[i].ref \in DOMAIN loaded THEN compareTransaction(loaded[rows[i].ref], rows[i])
               ELSE IF kind = "batch" THEN "MISSING_INTERNAL" ELSE "none"] : i \in DOMAIN rows}

missingGateway(rows, loaded) ==
    {[at |-> 0, txn |-> t, type |-> "MISSING_GATEWAY"] :
       t \in {u \in DOMAIN loaded : \A i \in DOMAIN rows : rows[i].ref # u}}

entriesOf(kind, rows, loaded) ==
    {e \in rowEntries(kind, rows, loaded) : e.type # "none"} \cup missingGateway(rows, loaded)

-----------------------------------------------------------------------------
others == UNCHANGED <<provider, books, txn, touched, moves, runFaults>>

goto(r, pc) == runner' = [runner EXCEPT ![r].pc = pc]

(* GetJob and GetPendingJobs scan the row; one whose error is NULL fails.    *)
GetJob == job.error # Null

GetPendingJobs == job.status = "PENDING" /\ job.by = "system" /\ job.error # Null

(* RunOnce of the scheduler.                                                 *)
RunOnce(r) ==
    /\ runner[r].pc = "idle"
    /\ GetPendingJobs
    /\ goto(r, "get")
    /\ UNCHANGED <<job, recorded>> /\ others

(* The run endpoint.                                                         *)
RunEndpoint(r) ==
    /\ runner[r].pc = "idle" /\ goto(r, "get")
    /\ UNCHANGED <<job, recorded>> /\ others

(* RunJob: only a PENDING job is run.                                        *)
RunJob(r) ==
    /\ runner[r].pc = "get"
    /\ goto(r, IF GetJob /\ job.status = "PENDING" THEN "mark" ELSE "done")
    /\ UNCHANGED <<job, recorded>> /\ others

(* UpdateJob, whatever the row holds by now. A batch fetches the report and  *)
(* then loads the transactions; a single job does it the other way round.    *)
MarkRunning(r) ==
    /\ runner[r].pc = "mark"
    /\ job' = [job EXCEPT !.status = "RUNNING", !.count = 0, !.error = ""]
    /\ goto(r, IF job.kind = "batch" THEN "fetch" ELSE "load")
    /\ UNCHANGED recorded /\ others

(* FetchSettlementReport, a page a step. Stripe's cursor is the last row's   *)
(* id (its place counted from the oldest); Razorpay's is the number of rows  *)
(* to skip. After MaxPages the report is taken as complete.                  *)
page(r) ==
    LET skipped == IF provider = "razorpay" THEN runner[r].next
                   ELSE IF runner[r].next = 0 THEN 0 ELSE Len(books) + 1 - runner[r].next
        rest == SubSeq(books, skipped + 1, Len(books))
    IN [rows |-> SubSeq(rest, 1, IF Len(rest) < PageSize THEN Len(rest) ELSE PageSize),
        last |-> IF provider = "razorpay" THEN Len(rest) < PageSize ELSE Len(rest) <= PageSize]

FetchSettlementReport(r) ==
    /\ runner[r].pc = "fetch"
    /\ LET p == page(r)
           end == p.last \/ runner[r].pages + 1 = MaxPages
           next == IF provider = "razorpay" THEN runner[r].next + Len(p.rows)
                   ELSE (IF runner[r].next = 0 THEN Len(books) + 1 ELSE runner[r].next) - Len(p.rows)
           after == IF job.kind = "batch" THEN "load" ELSE "insert"
       IN runner' = [runner EXCEPT ![r].report = @ \o p.rows, ![r].pages = IF end THEN 0 ELSE @ + 1,
                       ![r].next = IF end THEN 0 ELSE next, ![r].pc = IF end THEN after ELSE "fetch"]
    /\ UNCHANGED <<job, recorded>> /\ others

(* GetByIDs of the period's transactions, or GetByID of the job's.           *)
LoadTransactions(r) ==
    /\ runner[r].pc = "load"
    /\ runner' = [runner EXCEPT ![r].txns = [t \in job.txns |-> txn[t]],
                    ![r].pc = IF job.kind = "batch" THEN "insert" ELSE "fetch"]
    /\ UNCHANGED <<job, recorded>> /\ others

entries(r) == entriesOf(job.kind, reported(provider, runner[r].report), runner[r].txns)

(* One batch, all or nothing: an entry without a transaction breaks the      *)
(* foreign key and the run ends there, the job RUNNING.                      *)
InsertEntriesAnyway(r) ==
    /\ runner[r].pc = "insert"
    /\ recorded' = [recorded EXCEPT ![r] = {e \in entries(r) : e.txn # NoTxn}]
    /\ goto(r, "complete")
    /\ UNCHANGED job /\ others

InsertEntries(r) ==
    /\ runner[r].pc = "insert"
    /\ LET valid == \A e \in entries(r) : e.txn # NoTxn
       IN /\ recorded' = [recorded EXCEPT ![r] = IF valid THEN entries(r) ELSE {}]
          /\ goto(r, IF valid THEN "complete" ELSE "done")
    /\ UNCHANGED job /\ others

MarkCompleted(r) ==
    /\ runner[r].pc = "complete"
    /\ job' = [job EXCEPT !.status = "COMPLETED", !.count = Cardinality(entries(r)), !.error = ""]
    /\ goto(r, "done")
    /\ UNCHANGED recorded /\ others

MarkFailed(r) ==
    /\ runner[r].pc = "failed"
    /\ job' = [job EXCEPT !.status = "FAILED", !.count = 0, !.error = "failed"]
    /\ goto(r, "done")
    /\ UNCHANGED recorded /\ others

(* A statement or a page fails: the job is marked FAILED when the report or  *)
(* the transactions could not be read, and left as it is otherwise.          *)
RunStepFails(r) ==
    /\ runFaults < MaxRunFaults /\ runFaults' = runFaults + 1
    /\ runner[r].pc \notin {"idle", "done"}
    /\ goto(r, IF runner[r].pc \in {"fetch", "load"} THEN "failed" ELSE "done")
    /\ UNCHANGED <<job, recorded, provider, books, txn, touched, moves>>

RunnerDies(r) ==
    /\ runFaults < MaxRunFaults /\ runFaults' = runFaults + 1
    /\ runner[r].pc \notin {"idle", "done"} /\ goto(r, "done")
    /\ UNCHANGED <<job, recorded, provider, books, txn, touched, moves>>

-----------------------------------------------------------------------------
(* Meanwhile: the gateway books a row, a booked payment is captured, the     *)
(* service moves a transaction.                                              *)
GatewayBooks ==
    /\ moves < MaxMoves /\ Len(books) < MaxRows
    /\ \E row \in Rows : books' = <<row>> \o books /\ touched' = touched \cup {row.ref}
    /\ moves' = moves + 1
    /\ UNCHANGED <<job, recorded, provider, txn, runner, runFaults>>

GatewayCaptures ==
    /\ moves < MaxMoves /\ provider = "razorpay"
    /\ \E i \in DOMAIN books :
         /\ ~books[i].captured
         /\ books' = [books EXCEPT ![i].captured = TRUE]
         /\ touched' = touched \cup {books[i].ref}
    /\ moves' = moves + 1
    /\ UNCHANGED <<job, recorded, provider, txn, runner, runFaults>>

TxnMoves ==
    /\ moves < MaxMoves /\ moves' = moves + 1
    /\ \E t \in Txns : /\ txn[t] = "PROCESSING" /\ txn' = [txn EXCEPT ![t] = "CAPTURED"]
                       /\ touched' = touched \cup {t}
    /\ UNCHANGED <<job, recorded, provider, books, runner, runFaults>>

RunnerStep(r) ==
    \/ RunOnce(r) \/ RunEndpoint(r) \/ RunJob(r) \/ MarkRunning(r)
    \/ FetchSettlementReport(r) \/ LoadTransactions(r) \/ InsertEntries(r)
    \/ MarkCompleted(r) \/ MarkFailed(r) \/ RunStepFails(r) \/ RunnerDies(r)

RecNext == (\E r \in Runners : RunnerStep(r)) \/ GatewayBooks \/ GatewayCaptures \/ TxnMoves

RecSpec == RecInit /\ [][RecNext]_recVars

-----------------------------------------------------------------------------
(* A COMPLETED job has the entries it counts on record, all of one run, even *)
(* when two runs of it overlap, an insert is refused or a run breaks off     *)
(* (service.go:108-120).                                                     *)
CompletedIsRecorded ==
    job.status = "COMPLETED" => \E r \in Runners : /\ runner[r].pc = "done"
                                                  /\ job.count = Cardinality(recorded[r])
                                                  /\ job.count = Cardinality(entries(r))

(* A job COMPLETED without a mismatch means agreement: every transaction     *)
(* that did not change during the job is in the gateway's books with its     *)
(* outcome, amount and fee, and in a batch every unchanged payment of the    *)
(* books has a transaction. Rows booked between two pages neither hide nor   *)
(* invent one (service.go:132-330, the adapters' FetchSettlementReport).     *)
inAgreement(t, row) ==
    /\ isInternalSuccess(txn[t]) <=> row.captured
    /\ row.amount = Amount /\ row.fee \in {NoFee, Fees}

CleanMeansAgreed ==
    job.status = "COMPLETED" /\ job.count = 0 /\ Len(books) < PageSize * MaxPages =>
      LET rows == reported(provider, books) IN
      /\ \A t \in job.txns \ touched :
           /\ \E i \in DOMAIN books : books[i].ref = t
           /\ \A i \in DOMAIN rows : rows[i].ref = t => inAgreement(t, rows[i])
      /\ job.kind = "batch" => \A i \in DOMAIN rows : rows[i].ref \in Txns \cup touched
=============================================================================
