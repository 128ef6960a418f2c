----------------------------- MODULE RelayRing -----------------------------
(***************************************************************************)
(* Which relay worker polls which shard of the outbox: every worker builds *)
(* the same hash ring from the configured number of workers and takes the  *)
(* shards whose first ReplicationFactor distinct workers include it.       *)
(*                                                                         *)
(* The hash is abstracted: a ring gives a worker to each of the positions  *)
(* 0 .. Positions - 1, and a shard hashes to any of them or past the last. *)
(***************************************************************************)
EXTENDS Naturals, FiniteSets

CONSTANTS
    Positions,     \* virtual nodes on the ring
    MaxWorkers     \* the largest configuration considered

ASSUME RingConstants == Positions \in Nat /\ MaxWorkers \in Nat \ {0} /\ MaxWorkers <= Positions

ReplicationFactor == 2

Indexes == 0 .. MaxWorkers - 1

Rings ==
    {r \in [0 .. Positions - 1 -> Indexes] : \A w \in Indexes : \E p \in DOMAIN r : r[p] = w}

(* The steps clockwise from a shard's hash to a position, with wrap-around.  *)
distance(h, p) == IF p >= h THEN p - h ELSE p + Positions - h

(* How far the first virtual node of w is from h; the replicas are the       *)
(* workers met first.                                                        *)
reached(r, h, w) ==
    CHOOSE d \in 0 .. Positions - 1 :
      /\ \E p \in DOMAIN r : r[p] = w /\ distance(h, p) = d
      /\ \A p \in DOMAIN r : r[p] = w => distance(h, p) >= d

replicaSetModulo(r, workerCount, h) == {h % workerCount, (h + 1) % workerCount}

replicaSet(r, workerCount, h) ==
    IF workerCount <= 1 THEN {0}
    ELSE {w \in 0 .. workerCount - 1 :
            Cardinality({v \in 0 .. workerCount - 1 : reached(r, h, v) < reached(r, h, w)})
              < ReplicationFactor}

OwnedShards(r, workerIndex, workerCount) ==
    {h \in 0 .. Positions : workerIndex \in replicaSet(r, workerCount, h)}

-----------------------------------------------------------------------------
(* A rolling deploy that adds or removes a worker. WorkerIndex and           *)
(* WorkerCount are read when a worker starts (relay.go).                     *)
VARIABLES
    ring,       \* the positions of the hashes
    deploy,     \* the worker counts before and after
    count       \* the count each worker was started with; 0: it is not running

ringVars == <<ring, deploy, count>>

Deploys == {d \in [from : 1 .. MaxWorkers, to : 1 .. MaxWorkers] : d.from + 1 = d.to \/ d.to + 1 = d.from}

RingInit ==
    /\ ring \in Rings
    /\ deploy \in Deploys
    /\ count = [w \in Indexes |-> IF w < deploy.from THEN deploy.from ELSE 0]

StartRelay(w) ==
    /\ w < deploy.to /\ count[w] = 0
    /\ count' = [count EXCEPT ![w] = deploy.to]
    /\ UNCHANGED <<ring, deploy>>

(* A worker is stopped by the deploy, or dies.                               *)
StopRelay(w) ==
    /\ count[w] # 0
    /\ count' = [count EXCEPT ![w] = 0]
    /\ UNCHANGED <<ring, deploy>>

RingNext == \E w \in Indexes : StartRelay(w) \/ StopRelay(w)

RingSpec == RingInit /\ [][RingNext]_ringVars

-----------------------------------------------------------------------------
(* The shards the running workers poll, each by what it was started with.    *)
Polled == UNION {OwnedShards(ring, w, count[w]) : w \in {v \in Indexes : count[v] # 0}}

fewer == IF deploy.from < deploy.to THEN deploy.from ELSE deploy.to

(* In the middle of a rolling deploy, with workers of the old and of the new *)
(* count side by side and the worker that is added or removed not running,   *)
(* every shard is polled, as long as the others run; where all workers have  *)
(* the same count, one of them may be down; and a worker that runs with the  *)
(* larger count has no shard it has not with the smaller one: none is moved  *)
(* between two workers that stay (ring.go:12-28, 43-89).                     *)
RollingDeployServed ==
    /\ (\A w \in Indexes : w < fewer => count[w] # 0) => Polled = 0 .. Positions
    /\ \A n \in {deploy.from, deploy.to} :
         /\ n > 1
         /\ \A w \in Indexes : count[w] # 0 => count[w] = n
         /\ \E down \in Indexes : \A w \in Indexes : w < n /\ w # down => count[w] = n
         => Polled = 0 .. Positions
    /\ \A w \in Indexes : w < fewer /\ count[w] = fewer + 1 =>
         OwnedShards(ring, w, fewer + 1) \subseteq OwnedShards(ring, w, fewer)
=============================================================================
