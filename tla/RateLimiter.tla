----------------------------- MODULE RateLimiter -----------------------------
(***************************************************************************)
(* The rate limiter in front of the API. A request needs a token of its    *)
(* user's, its tenant's and its address's bucket. The buckets are in       *)
(* Valkey, shared by all processes and changed by one script; while Valkey *)
(* does not answer, a process uses its own buckets, which its request      *)
(* goroutines find through a map with an LRU list and change one mutex at  *)
(* a time. A health check switches back.                                   *)
(*                                                                         *)
(* One process and its goroutines. Time is in seconds and every reading    *)
(* of the clock is a step of its own, so that a request may use a reading  *)
(* that is old when its script runs.                                       *)
(***************************************************************************)
EXTENDS Integers, FiniteSets, FiniteSetsExt, Sequences, SequencesExt

CONSTANTS
    Threads,          \* request goroutines
    Requests,         \* the requests a goroutine serves, each as <<user, tenant, ip>>
    Capacity,         \* of a bucket in Valkey
    LocalCap,         \* of a local bucket: Capacity * FallbackMultiplier
    Rate,             \* tokens per second
    LocalMaxBuckets,
    failureThreshold,
    MaxTime,          \* bound on the clock
    MaxRequests,      \* bound on the requests of a behaviour
    MaxOutages        \* bound: outages of Valkey and lost answers

ASSUME LimiterConstants ==
    /\ Capacity \in Nat \ {0} /\ LocalCap \in Nat /\ Rate \in Nat
    /\ LocalMaxBuckets \in Nat \ {0} /\ failureThreshold \in Nat \ {0}
    /\ MaxTime \in Nat /\ MaxRequests \in Nat /\ MaxOutages \in Nat
    /\ DOMAIN Requests = Threads /\ \A t \in Threads : \A r \in Requests[t] : Len(r) = 3

VARIABLES
    clock,
    up,          \* Valkey answers
    shared,      \* the buckets in Valkey: tokens, last_ms
    available,   \* the limiter's flag
    failures,    \* consecutiveFailures
    health,      \* the health check: idle, or about to zero the failures
    localBuckets, \* the map: bucket id to a place of the heap
    lruOrder,    \* the LRU list, the latest used first
    heap,        \* local buckets: those of the map and those a request still holds
    call,        \* the requests in progress
    served,      \* requests so far
    limitFaults,
    spent,       \* history: tokens the script took from each shared bucket
    regress      \* history: seconds by which a shared bucket's last_ms moved back

limiterVars == <<clock, up, shared, available, failures, health, localBuckets,
                 lruOrder, heap, call, served, limitFaults, spent, regress>>

AllRequests == UNION Range(Requests)
Ids == UNION {Range(r) : r \in AllRequests}
Buckets == {<<i, r[i]>> : i \in 1 .. 3, r \in AllRequests}     \* bucketKey: the namespace, the id
keysOf(r) == {<<i, r[i]>> : i \in 1 .. 3}
Places == 1 .. LocalMaxBuckets + 3 * Cardinality(Threads)
NoPlace == 0
Empty == [tokens |-> 0, last |-> 0]

IdleCall == [pc |-> "idle", req |-> <<>>, now |-> 0, held |-> <<>>, i |-> 1, ok |-> TRUE]

LInit ==
    /\ clock = 0 /\ up = TRUE
    /\ shared = [k \in Buckets |-> [tokens |-> Capacity, last |-> 0]]
    /\ available = TRUE /\ failures = 0 /\ health = "idle"
    /\ localBuckets = [id \in Ids |-> NoPlace]
    /\ lruOrder = <<>>
    /\ heap = [b \in Places |-> Empty]
    /\ call = [t \in Threads |-> IdleCall]
    /\ served = 0 /\ limitFaults = 0
    /\ spent = [k \in Buckets |-> 0] /\ regress = [k \in Buckets |-> 0]

unlocal == UNCHANGED <<localBuckets, lruOrder, heap>>
history == UNCHANGED <<spent, regress>>

-----------------------------------------------------------------------------
(* Allow: read the flag; on the Valkey path the clock is read at once.       *)
Allow(t) ==
    /\ call[t].pc = "idle" /\ served < MaxRequests
    /\ served' = served + 1
    /\ \E r \in Requests[t] :
         call' = [call EXCEPT ![t] =
                    IF available
                    THEN [IdleCall EXCEPT !.pc = "exec", !.req = r, !.now = clock]
                    ELSE [IdleCall EXCEPT !.pc = "load", !.req = r]]
    /\ UNCHANGED <<clock, up, shared, available, failures, health, limitFaults>>
    /\ unlocal /\ history

(* What the script sees in a bucket: elapsed time never counts as negative.  *)
refilled(k, now) ==
    Min({Capacity, shared[k].tokens + Rate * Max({0, now - shared[k].last})})

TokenBucketUnchecked(t) ==
    LET now == call[t].now
        ks == keysOf(call[t].req)
    IN /\ shared' = [k \in Buckets |-> IF k \in ks
                       THEN [tokens |-> Max({0, refilled(k, now) - 1}), last |-> now]
                       ELSE shared[k]]
       /\ spent' = [k \in Buckets |-> spent[k] + IF k \in ks THEN 1 ELSE 0]
       /\ regress' = [k \in Buckets |-> regress[k] +
                        IF k \in ks THEN Max({0, shared[k].last - now}) ELSE 0]
       /\ call' = [call EXCEPT ![t].pc = "answer"]

(* tokenBucketLua: all three buckets or none; every bucket is written.       *)
TokenBucket(t) ==
    LET now == call[t].now
        ks == keysOf(call[t].req)
        allowed == \A k \in ks : refilled(k, now) >= 1
        cost == IF allowed THEN 1 ELSE 0
    IN /\ shared' = [k \in Buckets |-> IF k \in ks
                       THEN [tokens |-> refilled(k, now) - cost, last |-> now]
                       ELSE shared[k]]
       /\ spent' = [k \in Buckets |-> spent[k] + IF k \in ks THEN cost ELSE 0]
       /\ regress' = [k \in Buckets |-> regress[k] +
                        IF k \in ks THEN Max({0, shared[k].last - now}) ELSE 0]
       /\ call' = [call EXCEPT ![t].pc = "answer", ![t].ok = allowed]

ExecScript(t) ==
    /\ call[t].pc = "exec" /\ up
    /\ TokenBucket(t)
    /\ UNCHANGED <<clock, up, available, failures, health, limitFaults, served>> /\ unlocal

(* The answer: recordValkeySuccess, and the decision.                        *)
Answer(t) ==
    /\ call[t].pc = "answer"
    /\ failures' = 0
    /\ call' = [call EXCEPT ![t] = IdleCall]
    /\ UNCHANGED <<clock, up, shared, available, health, limitFaults, served>> /\ unlocal /\ history

(* No answer: Valkey is down, or (a fault) the answer is lost on the way.    *)
(* recordValkeyFailure counts it; the request goes on with local buckets.    *)
NoAnswer(t) ==
    /\ \/ call[t].pc = "exec" /\ ~up /\ UNCHANGED limitFaults
       \/ /\ call[t].pc = "answer" /\ limitFaults < MaxOutages
          /\ limitFaults' = limitFaults + 1
    /\ failures' = failures + 1
    /\ call' = [call EXCEPT ![t].pc = IF failures + 1 >= failureThreshold THEN "mark" ELSE "load",
                            ![t].now = 0, ![t].ok = TRUE]
    /\ UNCHANGED <<clock, up, shared, available, health, served>> /\ unlocal /\ history

MarkUnavailable(t) ==
    /\ call[t].pc = "mark"
    /\ available' = FALSE
    /\ call' = [call EXCEPT ![t].pc = "load"]
    /\ UNCHANGED <<clock, up, shared, failures, health, limitFaults, served>> /\ unlocal /\ history

-----------------------------------------------------------------------------
(* getOrCreateBucket. The first look at the map is without the lock.         *)
wanted(t) == call[t].req[Len(call[t].held) + 1]

Load(t) ==
    /\ call[t].pc = "load"
    /\ call' = [call EXCEPT ![t].pc =
                  IF localBuckets[wanted(t)] # NoPlace THEN "front" ELSE "create"]
    /\ UNCHANGED <<clock, up, shared, available, failures, health, limitFaults, served>>
    /\ unlocal /\ history

(* The request takes bucket b; with the third it reads the clock next.       *)
take(t, b) ==
    [call EXCEPT ![t].held = Append(@, b),
                 ![t].pc = IF Len(call[t].held) = 2 THEN "now" ELSE "load"]

moveToFront(id) == lruOrder' = <<id>> \o SelectSeq(lruOrder, LAMBDA x : x # id)

MoveToFront(t) ==
    /\ call[t].pc = "front"
    /\ LET id == wanted(t) IN
         \/ /\ localBuckets[id] # NoPlace
            /\ moveToFront(id)
            /\ call' = take(t, localBuckets[id])
         \/ /\ localBuckets[id] = NoPlace
            /\ call' = [call EXCEPT ![t].pc = "create"]
            /\ UNCHANGED lruOrder
    /\ UNCHANGED <<clock, up, shared, available, failures, health, limitFaults, served,
                   localBuckets, heap>> /\ history

(* The place of a new bucket: one that neither the map nor a request uses.   *)
used == {localBuckets[id] : id \in Ids} \cup UNION {Range(call[t].held) : t \in Threads}
freePlace == Min(Places \ used)

(* A bucket nothing refers to any more is garbage: its place is cleared.     *)
collect(h, map, calls) ==
    LET live == {map[id] : id \in Ids} \cup UNION {Range(calls[t].held) : t \in Threads}
    IN [b \in Places |-> IF b \in live THEN h[b] ELSE Empty]

(* A new bucket for id, after evictOldestLocked when the list is full.       *)
insert(t, id) ==
    LET full == Len(lruOrder) >= LocalMaxBuckets
        oldest == Last(lruOrder)
        kept == IF full THEN [localBuckets EXCEPT ![oldest] = NoPlace] ELSE localBuckets
        b == freePlace
    IN /\ localBuckets' = [kept EXCEPT ![id] = b]
       /\ lruOrder' = <<id>> \o IF full THEN Front(lruOrder) ELSE lruOrder
       /\ call' = take(t, b)
       /\ heap' = collect([heap EXCEPT ![b] = [tokens |-> LocalCap, last |-> clock]],
                          localBuckets', call')

(* Under the lock the map is looked at again.                                *)
CreateBucketBlindly(t) ==
    /\ call[t].pc = "create"
    /\ insert(t, wanted(t))
    /\ UNCHANGED <<clock, up, shared, available, failures, health, limitFaults, served>> /\ history

CreateBucket(t) ==
    /\ call[t].pc = "create"
    /\ LET id == wanted(t) IN
         \/ /\ localBuckets[id] # NoPlace
            /\ moveToFront(id)
            /\ call' = take(t, localBuckets[id])
            /\ UNCHANGED <<localBuckets, heap>>
         \/ /\ localBuckets[id] = NoPlace
            /\ insert(t, id)
    /\ UNCHANGED <<clock, up, shared, available, failures, health, limitFaults, served>> /\ history

ReadClock(t) ==
    /\ call[t].pc = "now"
    /\ call' = [call EXCEPT ![t].pc = "check", ![t].now = clock]
    /\ UNCHANGED <<clock, up, shared, available, failures, health, limitFaults, served>>
    /\ unlocal /\ history

(* The first loop of allowLocal, a bucket a step: refill (a reading older    *)
(* than the bucket's takes tokens back) and check.                           *)
CheckBucket(t) ==
    /\ call[t].pc = "check"
    /\ LET c == call[t]
           b == c.held[c.i]
           tokens == Min({LocalCap, heap[b].tokens + Rate * (c.now - heap[b].last)})
           ok == c.ok /\ tokens >= 1
           filled == [heap EXCEPT ![b] = [tokens |-> tokens, last |-> c.now]]
       IN \/ /\ c.i < 3
             /\ heap' = filled
             /\ call' = [call EXCEPT ![t].i = c.i + 1, ![t].ok = ok]
          \/ /\ c.i = 3 /\ ok
             /\ heap' = filled
             /\ call' = [call EXCEPT ![t].i = 1, ![t].pc = "take", ![t].now = 0]
          \/ /\ c.i = 3 /\ ~ok
             /\ call' = [call EXCEPT ![t] = IdleCall]
             /\ heap' = collect(filled, localBuckets, call')
    /\ UNCHANGED <<clock, up, shared, available, failures, health, limitFaults, served,
                   localBuckets, lruOrder>> /\ history

(* The second loop: take a token where there still is one.                   *)
TakeToken(t) ==
    /\ call[t].pc = "take"
    /\ LET c == call[t]
           b == c.held[c.i]
           less == IF heap[b].tokens >= 1 THEN [heap EXCEPT ![b].tokens = @ - 1] ELSE heap
       IN \/ /\ c.i < 3
             /\ heap' = less
             /\ call' = [call EXCEPT ![t].i = c.i + 1]
          \/ /\ c.i = 3
             /\ call' = [call EXCEPT ![t] = IdleCall]
             /\ heap' = collect(less, localBuckets, call')
    /\ UNCHANGED <<clock, up, shared, available, failures, health, limitFaults, served,
                   localBuckets, lruOrder>> /\ history

-----------------------------------------------------------------------------
(* runHealthCheck: a ping; MarkAvailable zeroes the failures after it has    *)
(* released the flag's lock.                                                 *)
PingOnly ==
    /\ health = "idle"
    /\ ~up /\ available' = FALSE
    /\ UNCHANGED <<clock, up, shared, failures, health, limitFaults, served, call>> /\ unlocal /\ history

Ping ==
    /\ health = "idle"
    /\ \/ up /\ ~available /\ available' = TRUE /\ health' = "zero"
       \/ ~up /\ available' = FALSE /\ UNCHANGED health
    /\ UNCHANGED <<clock, up, shared, failures, limitFaults, served, call>> /\ unlocal /\ history

ZeroFailures ==
    /\ health = "zero"
    /\ failures' = 0 /\ health' = "idle"
    /\ UNCHANGED <<clock, up, shared, available, limitFaults, served, call>> /\ unlocal /\ history

(* Valkey stops answering, and answers again; its buckets outlive both.      *)
ValkeyDown ==
    /\ up /\ limitFaults < MaxOutages
    /\ up' = FALSE /\ limitFaults' = limitFaults + 1
    /\ UNCHANGED <<clock, shared, available, failures, health, served, call>> /\ unlocal /\ history

ValkeyUp ==
    /\ ~up /\ up' = TRUE
    /\ UNCHANGED <<clock, shared, available, failures, health, limitFaults, served, call>>
    /\ unlocal /\ history

Tick ==
    /\ clock < MaxTime /\ clock' = clock + 1
    /\ UNCHANGED <<up, shared, available, failures, health, limitFaults, served, call>>
    /\ unlocal /\ history

-----------------------------------------------------------------------------
Step(t) ==
    \/ ExecScript(t) \/ Answer(t) \/ NoAnswer(t) \/ MarkUnavailable(t)
    \/ Load(t) \/ MoveToFront(t) \/ CreateBucket(t)
    \/ ReadClock(t) \/ CheckBucket(t) \/ TakeToken(t)

LNext ==
    \/ \E t \in Threads : Allow(t) \/ Step(t)
    \/ Ping \/ ZeroFailures \/ ValkeyDown \/ ValkeyUp \/ Tick

LSpec == LInit /\ [][LNext]_limiterVars

(* Goroutines run, and the ticker of the health check never stops.           *)
FairLSpec ==
    /\ LSpec
    /\ \A t \in Threads : WF_limiterVars(Step(t))
    /\ WF_limiterVars(Ping) /\ WF_limiterVars(ZeroFailures)

-----------------------------------------------------------------------------
(* A shared bucket gives its capacity and what time refills, to all the      *)
(* processes together, whatever the order their scripts run in; the one      *)
(* thing that gives more is a script that carries an older reading of the    *)
(* clock than the one before it, for the bucket then refills that time       *)
(* again (scripts.go:33, :55).                                               *)
SharedLimit ==
    \A k \in Buckets :
      /\ shared[k].tokens \in 0 .. Capacity
      /\ spent[k] + shared[k].tokens <= Capacity + Rate * (shared[k].last + regress[k])

(* The map and the LRU list describe the same buckets, at most               *)
(* LocalMaxBuckets, and an id never has two: requests of one user that meet  *)
(* in getOrCreateBucket share one bucket, unless it was evicted between      *)
(* (rate_limiter.go:208-245). No local bucket holds more than its capacity.  *)
LruConsistent ==
    /\ Range(lruOrder) = {id \in Ids : localBuckets[id] # NoPlace}
    /\ \A i, j \in DOMAIN lruOrder : lruOrder[i] = lruOrder[j] => i = j
    /\ Len(lruOrder) <= LocalMaxBuckets
    /\ \A b \in Places : heap[b].tokens <= LocalCap

(* Once Valkey answers again and keeps answering, the limiter comes back to  *)
(* the shared buckets for good (runHealthCheck, MarkAvailable), whatever     *)
(* requests that failed before still do.                                     *)
Restored == <>[](up) => <>[](available)
=============================================================================
