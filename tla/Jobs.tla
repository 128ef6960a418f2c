-------------------------------- MODULE Jobs --------------------------------
(***************************************************************************)
(* The work behind the payments that shares no row: the partition manager, *)
(* the reconciliation, the relay's share of the outbox during a deploy,    *)
(* and the fees that are computed before a payment is initiated. Since     *)
(* none of them reads what another writes, a behaviour is about one.       *)
(***************************************************************************)
EXTENDS PartitionManager, Reconciliation, Fees, RelayRing

VARIABLE about      \* what this behaviour is about

jobVars == <<about, partVars, recVars, feeVars, ringVars>>

(* What the others would find stays as it is.                                *)
NoPartitioning == \A w \in RowWeeks : row.week <= w
NoReconciliation ==
    /\ job.by = "ops" /\ job.kind = "batch" /\ provider = "stripe" /\ books = <<>>
    /\ \A t \in Txns : txn[t] = "PROCESSING"
NoFees == payment = (CHOOSE p \in Payments : TRUE) /\ charge = <<>>
NoDeploy ==
    /\ ring = CHOOSE r \in Rings : TRUE
    /\ deploy = CHOOSE d \in Deploys : TRUE
    /\ count = [w \in Indexes |-> 0]

JobsInit ==
    /\ about \in {"partition_manager", "reconciliation", "fees", "relay"}
    /\ PInit /\ (about # "partition_manager" => NoPartitioning)
    /\ RecInit /\ (about # "reconciliation" => NoReconciliation)
    /\ IF about = "fees" THEN FeesInit ELSE NoFees
    /\ IF about = "relay" THEN RingInit ELSE NoDeploy

JobsNext ==
    \/ about = "partition_manager" /\ PNext /\ UNCHANGED <<about, recVars, feeVars, ringVars>>
    \/ about = "reconciliation" /\ RecNext /\ UNCHANGED <<about, partVars, feeVars, ringVars>>
    \/ about = "fees" /\ ChargeFees /\ UNCHANGED <<about, partVars, recVars, ringVars>>
    \/ about = "relay" /\ RingNext /\ UNCHANGED <<about, partVars, recVars, feeVars>>

JobsSpec == JobsInit /\ [][JobsNext]_jobVars
=============================================================================
