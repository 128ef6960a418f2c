------------------------------- MODULE MCJobs -------------------------------
EXTENDS Jobs, TLC

MCTxns == {"t1", "t2"}

(* t1: paid or still open; t2: as expected, another amount, another fee; and *)
(* a payment the service does not know.                                      *)
MCRows ==
    {[ref |-> "t1", captured |-> c, amount |-> 1, fee |-> 0] : c \in BOOLEAN}
    \cup {[ref |-> "t2", captured |-> TRUE, amount |-> a[1], fee |-> a[2]] :
            a \in {<<1, 1>>, <<2, 1>>, <<1, 2>>}}
    \cup {[ref |-> "unknown", captured |-> TRUE, amount |-> 1, fee |-> 0]}

Symmetry == Permutations(Processes) \cup Permutations(Runners)
=============================================================================
