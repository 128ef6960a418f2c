--------------------------- MODULE SupportProofs ----------------------------
(***************************************************************************)
(* Proofs about the parts around the payments. For any clients, keys,      *)
(* bodies and any number of faults and expiries, the idempotency guard and *)
(* the response cache implement OnceOnly. For any runners, a               *)
(* reconciliation job that says COMPLETED has its entries on record. For   *)
(* any capacity and rate, a shared token bucket gives no more than its     *)
(* limit.                                                                  *)
(***************************************************************************)
EXTENDS IdempotencyGuard, Reconciliation, RateLimiter, TLAPS

-----------------------------------------------------------------------------
(* What the variables range over. *)
GTypeOK ==
    /\ request \in [Clients -> RequestType]
    /\ log \in Seq(RequestType)
    /\ answer \in [Clients -> [verdict : Verdicts, result : Nat]]
    /\ keyRow \in [Keys -> Nat]
    /\ holder \in [Keys -> Clients \cup {NoOne}]
    /\ cached \in [RequestType -> Nat]
    /\ pc \in [Clients -> Steps]

(* A result n is that of an operation performed for request r.              *)
ResultOf(n, r) ==
    /\ n \in 1..Len(log)
    /\ log[n].key = r.key
    /\ requestHash(log[n].body) = requestHash(r.body)

(* The response about to be cached is the result of its request.            *)
AboutToCache == \A c \in Clients : pc[c] = "put" => ResultOf(answer[c].result, request[c])

GInv == GTypeOK /\ ReservationsExclusive /\ AboutToCache

-----------------------------------------------------------------------------
(* The log only grows, so a result stays that of its operation. *)
LEMMA LogGrows ==
    ASSUME log \in Seq(RequestType), NEW r0 \in RequestType, log' = Append(log, r0)
    PROVE  /\ log' \in Seq(RequestType)
           /\ Len(log') = Len(log) + 1
           /\ \A n \in 1..Len(log) : log'[n] = log[n]
           /\ log'[Len(log) + 1] = r0
  OBVIOUS

(* An answer goes to one client.                                             *)
LEMMA SayType ==
    ASSUME GTypeOK, NEW c \in Clients, NEW v \in Verdicts, NEW n \in Nat, Say(c, v, n)
    PROVE  /\ answer' \in [Clients -> [verdict : Verdicts, result : Nat]]
           /\ answer'[c].result = n
           /\ \A d \in Clients \ {c} : answer'[d] = answer[d]
  BY DEF GTypeOK, Say

(* The parts of GTypeOK that concern one client. *)
LEMMA ClientType ==
    ASSUME GTypeOK, NEW c \in Clients
    PROVE  /\ request[c] \in RequestType
           /\ Key(c) \in Keys
           /\ cached[request[c]] \in Nat
           /\ keyRow[Key(c)] \in Nat
           /\ Len(log) \in Nat
  <1>1. request[c] \in RequestType /\ Len(log) \in Nat
    BY DEF GTypeOK
  <1>2. Key(c) \in Keys
    BY <1>1 DEF Key, RequestType
  <1> QED
    BY <1>1, <1>2 DEF GTypeOK

(* The invariant holds at first.                                             *)
LEMMA InitGInv == GInit => GInv
<1> SUFFICES ASSUME GInit PROVE GInv
  OBVIOUS
<1> USE DEF GInit
<1>1. GTypeOK
  BY DEF GTypeOK, Steps, Verdicts, Once!Unanswered
<1>2. ReservationsExclusive
  BY GuardConstants DEF ReservationsExclusive, RequestType, Key
<1>3. AboutToCache
  BY DEF AboutToCache
<1> QED
  BY <1>1, <1>2, <1>3 DEF GInv

(* Every step of a request, of the sweep and of the cache keeps GInv. *)
LEMMA NextGInv == GInv /\ [GNext]_gvars => GInv'
<1> SUFFICES ASSUME GInv, [GNext]_gvars PROVE GInv'
  OBVIOUS
<1> USE GuardConstants
<1>a. ASSUME NEW c \in Clients, ResponseCache(c) PROVE GInv'
  <2>1. GTypeOK'
    <3>1. CASE Say(c, "replayed", cached[request[c]]) /\ UNCHANGED pc
      <4>1. answer' \in [Clients -> [verdict : Verdicts, result : Nat]]
        BY <3>1, ClientType, SayType DEF GInv, Verdicts
      <4> QED
        BY <1>a, <3>1, <4>1 DEF GInv, GTypeOK, ResponseCache
    <3>2. CASE Goto(c, "reserve") /\ UNCHANGED answer
      BY <1>a, <3>2 DEF GInv, GTypeOK, ResponseCache, Goto, Steps
    <3> QED
      BY <1>a, <3>1, <3>2 DEF ResponseCache, cacheKey
  <2>2. ReservationsExclusive'
    BY <1>a DEF GInv, GTypeOK, ReservationsExclusive, ResponseCache, Goto, Key, Steps
  <2>3. AboutToCache'
    BY Zenon, <1>a DEF GInv, GTypeOK, AboutToCache, ResultOf, ResponseCache, Say, Goto
  <2> QED
    BY <2>1, <2>2, <2>3 DEF GInv
<1>b. ASSUME NEW c \in Clients, Reserve(c) PROVE GInv'
  <2>1. GTypeOK'
    <3>1. holder' \in [Keys -> Clients \cup {NoOne}]
      BY Zenon, <1>b DEF GInv, GTypeOK, Reserve
    <3>2. pc' \in [Clients -> Steps]
      BY Zenon, <1>b DEF GInv, GTypeOK, Reserve, Goto, Steps
    <3> QED
      BY <1>b, <3>1, <3>2 DEF GInv, GTypeOK, Reserve
  <2>2. ReservationsExclusive'
    <3>1. CASE keyRow[Key(c)] = 0 /\ holder' = [holder EXCEPT ![Key(c)] = c] /\ Goto(c, "op")
      <4>1. \A d \in Clients : Key(d)' = Key(d) /\ Key(d) \in Keys
        BY <1>b, ClientType DEF GInv, Reserve, Key
      <4>2. \A d \in Clients : pc'[d] \in {"op", "commit"} <=> holder'[Key(d)] = d
        BY <1>b, <3>1, <4>1 DEF GInv, GTypeOK, ReservationsExclusive, Reserve, Goto
      <4> QED
        BY <1>b, <3>1, <4>1, <4>2 DEF GInv, GTypeOK, ReservationsExclusive, Reserve
    <3>2. CASE UNCHANGED holder /\ Goto(c, "lookup")
      BY <1>b, <3>2 DEF GInv, GTypeOK, ReservationsExclusive, Reserve, Goto, Key
    <3> QED
      BY <1>b, <3>1, <3>2 DEF Reserve
  <2>3. AboutToCache'
    BY <1>b DEF GInv, GTypeOK, AboutToCache, ResultOf, Reserve, Goto
  <2> QED
    BY <2>1, <2>2, <2>3 DEF GInv
<1>c. ASSUME NEW c \in Clients, Lookup(c) PROVE GInv'
  <2>1. GTypeOK'
    <3>1. answer' \in [Clients -> [verdict : Verdicts, result : Nat]]
      BY <1>c, ClientType, SayType DEF GInv, Lookup, Verdicts
    <3>2. pc' \in [Clients -> Steps]
      BY Zenon, <1>c DEF GInv, GTypeOK, Lookup, Goto, Steps
    <3> QED
      BY <1>c, <3>1, <3>2 DEF GInv, GTypeOK, Lookup
  <2>2. ReservationsExclusive'
    BY <1>c DEF GInv, GTypeOK, ReservationsExclusive, Lookup, Goto, Key, Steps, RequestType
  <2>3. AboutToCache'
    <3>1. SUFFICES ASSUME NEW d \in Clients, pc'[d] = "put" PROVE ResultOf(answer[d].result, request[d])'
      BY DEF AboutToCache
    <3>2. CASE d = c
      <4>1. /\ Say(c, "replayed", keyRow[Key(c)])
            /\ keyRow[Key(c)] # 0
            /\ requestHash(log[keyRow[Key(c)]].body) = requestHash(request[c].body)
        BY <1>c, <3>1, <3>2 DEF GInv, GTypeOK, Lookup, Goto
      <4>2. answer'[c].result = keyRow[Key(c)]
        BY <4>1, ClientType, SayType DEF GInv, Verdicts
      <4> QED
        BY <1>c, <3>2, <4>1, <4>2, ClientType DEF GInv, ReservationsExclusive, ResultOf, Lookup, Key
    <3>3. CASE d # c
      <4>1. pc[d] = "put" /\ answer'[d] = answer[d]
        BY <1>c, <3>1, <3>3 DEF GInv, GTypeOK, Lookup, Goto, Say
      <4> QED
        BY <1>c, <4>1 DEF GInv, AboutToCache, ResultOf, Lookup
    <3> QED
      BY <3>2, <3>3
  <2> QED
    BY <2>1, <2>2, <2>3 DEF GInv
<1>d. ASSUME NEW c \in Clients, RunOp(c) PROVE GInv'
  <2>1. GTypeOK'
    BY <1>d DEF GInv, GTypeOK, RunOp, Goto, Steps
  <2>2. ReservationsExclusive'
    BY <1>d DEF GInv, GTypeOK, ReservationsExclusive, RunOp, Goto, Key, Steps, RequestType
  <2>3. AboutToCache'
    BY <1>d DEF GInv, GTypeOK, AboutToCache, ResultOf, RunOp, Goto
  <2> QED
    BY <2>1, <2>2, <2>3 DEF GInv
<1>e. ASSUME NEW c \in Clients, Rollback(c) \/ Crash(c) PROVE GInv'
  <2>1. GTypeOK'
    <3>1. answer' \in [Clients -> [verdict : Verdicts, result : Nat]]
      BY <1>e, SayType DEF GInv, Rollback, Crash, Verdicts
    <3>2. holder' \in [Keys -> Clients \cup {NoOne}]
      BY Zenon, <1>e DEF GInv, GTypeOK, Rollback, Crash
    <3>3. pc' \in [Clients -> Steps]
      BY Zenon, <1>e DEF GInv, GTypeOK, Rollback, Crash, Goto, Steps
    <3> QED
      BY <1>e, <3>1, <3>2, <3>3 DEF GInv, GTypeOK, Rollback, Crash
  <2>2. ReservationsExclusive'
    <3>1. \A d \in Clients : Key(d)' = Key(d) /\ Key(d) \in Keys
      BY <1>e, ClientType DEF GInv, Rollback, Crash, Key
    <3>2. \A d \in Clients : pc'[d] \in {"op", "commit"} <=> holder'[Key(d)] = d
      <4>1. CASE Rollback(c)
        BY <3>1, <4>1 DEF GInv, GTypeOK, ReservationsExclusive, Rollback, Goto
      <4>2. CASE Crash(c)
        BY <3>1, <4>2 DEF GInv, GTypeOK, ReservationsExclusive, Crash, Goto
      <4> QED
        BY <1>e, <4>1, <4>2
    <3>3. \A k \in Keys : holder'[k] # NoOne => holder[k] # NoOne
      BY <1>e, <3>1 DEF GInv, GTypeOK, Rollback, Crash
    <3> QED
      BY <1>e, <3>1, <3>2, <3>3 DEF GInv, ReservationsExclusive, Rollback, Crash
  <2>3. AboutToCache'
    BY Zenon, <1>e DEF GInv, GTypeOK, AboutToCache, ResultOf, Rollback, Crash, Goto, Say
  <2> QED
    BY <2>1, <2>2, <2>3 DEF GInv
<1>f. ASSUME NEW c \in Clients, Commit(c) \/ CommitUnknown(c) PROVE GInv'
  <2>0. /\ request[c] \in RequestType
        /\ log' = Append(log, request[c])
    BY <1>f DEF GInv, GTypeOK, Commit, CommitUnknown, Committed
  <2>g. /\ log' \in Seq(RequestType)
        /\ Len(log') = Len(log) + 1
        /\ Len(log) \in Nat
        /\ \A n \in 1..Len(log) : log'[n] = log[n]
        /\ log'[Len(log) + 1] = request[c]
    BY <2>0, LogGrows DEF GInv, GTypeOK
  <2>k. \A d \in Clients : Key(d)' = Key(d) /\ Key(d) \in Keys
    BY <1>f, ClientType DEF GInv, Commit, CommitUnknown, Key
  <2>1. GTypeOK'
    <3>1. answer' \in [Clients -> [verdict : Verdicts, result : Nat]]
      <4>1. Say(c, "created", Len(log) + 1) \/ Say(c, "error", 0)
        BY <1>f DEF Commit, CommitUnknown
      <4> QED
        BY <4>1, <2>g, SayType DEF GInv, Verdicts
    <3>2. keyRow' \in [Keys -> Nat] /\ holder' \in [Keys -> Clients \cup {NoOne}]
      <4>1. /\ keyRow' = [keyRow EXCEPT ![Key(c)] = Len(log) + 1]
            /\ holder' = [holder EXCEPT ![Key(c)] = NoOne]
        BY <1>f DEF Commit, CommitUnknown, Committed
      <4>2. keyRow \in [Keys -> Nat] /\ holder \in [Keys -> Clients \cup {NoOne}]
        BY DEF GInv, GTypeOK
      <4>3. Len(log) + 1 \in Nat
        BY <2>g
      <4> QED
        BY Zenon, <4>1, <4>2, <4>3
    <3>3. pc' \in [Clients -> Steps]
      BY Zenon, <1>f DEF GInv, GTypeOK, Commit, CommitUnknown, Goto, Steps
    <3>4. UNCHANGED <<request, cached>>
      BY <1>f DEF Commit, CommitUnknown
    <3> QED
      BY <2>g, <3>1, <3>2, <3>3, <3>4 DEF GInv, GTypeOK
  <2>2. ReservationsExclusive'
    <3>1. \A d \in Clients : pc'[d] \in {"op", "commit"} <=> holder'[Key(d)] = d
      <4>1. /\ pc[c] = "commit"
            /\ holder' = [holder EXCEPT ![Key(c)] = NoOne]
            /\ pc' = [pc EXCEPT ![c] = "put"] \/ pc' = [pc EXCEPT ![c] = "idle"]
        BY <1>f DEF Commit, CommitUnknown, Committed, Goto
      <4> QED
        BY <4>1, <2>k DEF GInv, GTypeOK, ReservationsExclusive
    <3>2. ASSUME NEW k \in Keys
          PROVE  /\ holder'[k] # NoOne => keyRow'[k] = 0
                 /\ keyRow'[k] # 0 => keyRow'[k] \in 1..Len(log') /\ log'[keyRow'[k]].key = k
      <4>1. CASE k = Key(c)
        <5>1. holder'[k] = NoOne /\ keyRow'[k] = Len(log) + 1
          BY <1>f, <4>1, <2>k DEF GInv, GTypeOK, Commit, CommitUnknown, Committed
        <5> QED
          BY <5>1, <2>g, <4>1 DEF Key
      <4>2. CASE k # Key(c)
        <5>1. holder'[k] = holder[k] /\ keyRow'[k] = keyRow[k]
          BY <1>f, <4>2, <2>k DEF GInv, GTypeOK, Commit, CommitUnknown, Committed
        <5> QED
          BY <5>1, <2>g DEF GInv, ReservationsExclusive
      <4> QED
        BY <4>1, <4>2
    <3>3. ASSUME NEW r \in RequestType, cached'[r] # 0
          PROVE  /\ cached'[r] \in 1..Len(log')
                 /\ log'[cached'[r]].key = r.key
                 /\ requestHash(log'[cached'[r]].body) = requestHash(r.body)
      BY <1>f, <2>g, <3>3 DEF GInv, ReservationsExclusive, Commit, CommitUnknown
    <3> QED
      BY <2>k, <3>1, <3>2, <3>3 DEF ReservationsExclusive
  <2>3. AboutToCache'
    <3>1. SUFFICES ASSUME NEW d \in Clients, pc'[d] = "put" PROVE ResultOf(answer[d].result, request[d])'
      BY DEF AboutToCache
    <3>2. CASE d = c
      <4>0. pc \in [Clients -> Steps] /\ pc'[c] = "put"
        BY <3>1, <3>2 DEF GInv, GTypeOK
      <4>1. Say(c, "created", Len(log) + 1)
        BY <1>f, <4>0 DEF Commit, CommitUnknown, Goto
      <4>2. answer'[c].result = Len(log) + 1
        BY <4>1, <2>g, SayType DEF GInv, Verdicts
      <4> QED
        BY <1>f, <2>g, <3>2, <4>2 DEF ResultOf, Commit, CommitUnknown
    <3>3. CASE d # c
      <4>1. pc[d] = "put" /\ answer'[d] = answer[d]
        BY <1>f, <3>1, <3>3 DEF GInv, GTypeOK, Commit, CommitUnknown, Goto, Say
      <4> QED
        BY <1>f, <2>g, <4>1 DEF GInv, AboutToCache, ResultOf, Commit, CommitUnknown
    <3> QED
      BY <3>2, <3>3
  <2> QED
    BY <2>1, <2>2, <2>3 DEF GInv
<1>g. ASSUME NEW c \in Clients, PutResponse(c) PROVE GInv'
  <2>1. GTypeOK'
    BY <1>g DEF GInv, GTypeOK, PutResponse, Goto, Steps
  <2>2. ReservationsExclusive'
    BY <1>g DEF GInv, GTypeOK, ReservationsExclusive, AboutToCache, ResultOf, PutResponse, Goto, Key, Steps, RequestType
  <2>3. AboutToCache'
    BY <1>g DEF GInv, GTypeOK, AboutToCache, ResultOf, PutResponse, Goto
  <2> QED
    BY <2>1, <2>2, <2>3 DEF GInv
<1>h. ASSUME NEW k \in Keys, DeleteExpired(k) PROVE GInv'
  <2>1. GTypeOK'
    BY <1>h DEF GInv, GTypeOK, DeleteExpired
  <2>2. ReservationsExclusive'
    BY <1>h DEF GInv, GTypeOK, ReservationsExclusive, DeleteExpired, Key
  <2>3. AboutToCache'
    BY <1>h DEF GInv, AboutToCache, ResultOf, DeleteExpired
  <2> QED
    BY <2>1, <2>2, <2>3 DEF GInv
<1>i. ASSUME NEW r \in RequestType, CacheExpires(r) PROVE GInv'
  <2>1. GTypeOK'
    BY <1>i DEF GInv, GTypeOK, CacheExpires
  <2>2. ReservationsExclusive'
    BY <1>i DEF GInv, GTypeOK, ReservationsExclusive, CacheExpires, Key
  <2>3. AboutToCache'
    BY <1>i DEF GInv, AboutToCache, ResultOf, CacheExpires
  <2> QED
    BY <2>1, <2>2, <2>3 DEF GInv
<1>j. ASSUME UNCHANGED gvars PROVE GInv'
  BY <1>j DEF GInv, GTypeOK, ReservationsExclusive, AboutToCache, ResultOf, Key, gvars
<1> QED
  BY <1>a, <1>b, <1>c, <1>d, <1>e, <1>f, <1>g, <1>h, <1>i, <1>j DEF GNext, Handle

-----------------------------------------------------------------------------
(* Reservations are exclusive in every state: Reserve lets no second        *)
(* transaction perform the operation of a key.                              *)
THEOREM ExclusiveReservations == GSpec => []ReservationsExclusive
<1>1. GInv => ReservationsExclusive
  BY DEF GInv
<1> QED
  BY <1>1, InitGInv, NextGInv, PTL DEF GSpec

(* Each step of the guard is a step of OnceOnly, or changes nothing the     *)
(* client can see.                                                          *)
LEMMA StepSimulation == GInv /\ [GNext]_gvars => [Once!OnceNext]_(Once!onceVars)
<1> SUFFICES ASSUME GInv, [GNext]_gvars PROVE [Once!OnceNext]_(Once!onceVars)
  OBVIOUS
<1> USE DEF Once!onceVars
<1>a. ASSUME NEW c \in Clients, ResponseCache(c) PROVE [Once!OnceNext]_(Once!onceVars)
  <2>1. CASE cached[request[c]] # 0 /\ Say(c, "replayed", cached[request[c]])
    <3>1. cached[request[c]] \in 1..Len(log) /\ Once!SameRequest(c, cached[request[c]])
      BY <2>1, ClientType DEF GInv, ReservationsExclusive, Once!SameRequest
    <3>2. Once!Replay(c)
      BY Zenon, <1>a, <2>1, <3>1 DEF Once!Replay, Once!Say, Say, ResponseCache
    <3> QED
      BY <3>2 DEF Once!OnceNext
  <2>2. CASE UNCHANGED answer
    BY <1>a, <2>2 DEF ResponseCache
  <2> QED
    BY Zenon, <1>a, <2>1, <2>2 DEF ResponseCache, cacheKey
<1>b. ASSUME NEW c \in Clients, Reserve(c) \/ RunOp(c) \/ PutResponse(c)
      PROVE [Once!OnceNext]_(Once!onceVars)
  BY <1>b DEF Reserve, RunOp, PutResponse
<1>c. ASSUME NEW c \in Clients, Lookup(c) PROVE [Once!OnceNext]_(Once!onceVars)
  <2>1. CASE Say(c, "in_progress", 0)
    <3>1. Once!Fail(c)
      BY <1>c, <2>1 DEF Once!Fail, Once!Say, Say, Lookup
    <3> QED
      BY <3>1 DEF Once!OnceNext
  <2>2. CASE /\ keyRow[Key(c)] # 0
             /\ requestHash(log[keyRow[Key(c)]].body) # requestHash(request[c].body)
             /\ Say(c, "key_reused", 0)
    <3>1. Once!Refuse(c)
      BY <1>c, <2>2 DEF Once!Refuse, Once!SameRequest, Once!Say, Say, Lookup, Key
    <3> QED
      BY <3>1 DEF Once!OnceNext
  <2>3. CASE /\ keyRow[Key(c)] # 0
             /\ requestHash(log[keyRow[Key(c)]].body) = requestHash(request[c].body)
             /\ Say(c, "replayed", keyRow[Key(c)])
    <3>1. keyRow[Key(c)] \in 1..Len(log) /\ Once!SameRequest(c, keyRow[Key(c)])
      BY <2>3, ClientType DEF GInv, ReservationsExclusive, Once!SameRequest, Key
    <3>2. Once!Replay(c)
      BY Zenon, <1>c, <2>3, <3>1 DEF Once!Replay, Once!Say, Say, Lookup
    <3> QED
      BY <3>2 DEF Once!OnceNext
  <2> QED
    BY <1>c, <2>1, <2>2, <2>3 DEF Lookup
<1>d. ASSUME NEW c \in Clients, Rollback(c) \/ Crash(c) PROVE [Once!OnceNext]_(Once!onceVars)
  <2>1. Once!Fail(c)
    BY <1>d DEF Once!Fail, Once!Say, Say, Rollback, Crash
  <2> QED
    BY <2>1 DEF Once!OnceNext
<1>e. ASSUME NEW c \in Clients, Commit(c) \/ CommitUnknown(c) PROVE [Once!OnceNext]_(Once!onceVars)
  <2>1. keyRow[request[c].key] = 0
    <3>1. pc[c] = "commit"
      BY <1>e DEF Commit, CommitUnknown, Committed
    <3>2. holder[Key(c)] = c /\ c # NoOne
      BY <3>1, GuardConstants DEF GInv, ReservationsExclusive
    <3> QED
      BY <3>2, ClientType DEF GInv, ReservationsExclusive, Key
  <2>2. Once!Perform(c)
    BY <1>e, <2>1 DEF Once!Perform, Once!Say, Say, Commit, CommitUnknown, Committed, Key
  <2> QED
    BY <2>2 DEF Once!OnceNext
<1>f. ASSUME NEW k \in Keys, DeleteExpired(k) PROVE [Once!OnceNext]_(Once!onceVars)
  <2>1. Once!Forget(k)
    BY <1>f DEF Once!Forget, DeleteExpired
  <2> QED
    BY <2>1 DEF Once!OnceNext
<1>g. ASSUME (\E r \in RequestType : CacheExpires(r)) \/ UNCHANGED gvars
      PROVE [Once!OnceNext]_(Once!onceVars)
  BY <1>g DEF CacheExpires, gvars
<1> QED
  BY <1>a, <1>b, <1>c, <1>d, <1>e, <1>f, <1>g DEF GNext, Handle

(* Whatever the interleaving, the failures, the crashes and the expiries,   *)
(* Guard.Execute behind the response cache performs an operation at most    *)
(* once while its key is remembered, and answers with its result.           *)
THEOREM GuardImplementsOnceOnly == GSpec => PerformedOnce
<1>1. GInit => Once!OnceInit
  BY DEF GInit, Once!OnceInit, RequestType
<1> QED
  BY <1>1, InitGInv, NextGInv, StepSimulation, PTL DEF GSpec, PerformedOnce, Once!OnceSpec

-----------------------------------------------------------------------------
(* Reconciliation. The inductive invariant says that a runner about to mark  *)
(* the job COMPLETED has recorded its entries, and that a COMPLETED job was  *)
(* marked by a runner that is done. Nothing locks the job, so other runners  *)
(* may mark it at any time; but none of them writes over another's entries,  *)
(* and what a runner that is done has fetched does not change any more. All  *)
(* the proof needs of the types is which fields the records have.            *)
RunnerFields == {"pc", "report", "pages", "next", "txns"}
JobFields == {"status", "by", "kind", "txns", "count", "error"}

Shape ==
    /\ runner = [r \in Runners |-> runner[r]]
    /\ \A r \in Runners : runner[r] = [f \in RunnerFields |-> runner[r][f]]
    /\ job = [f \in JobFields |-> job[f]]
    /\ recorded = [r \in Runners |-> recorded[r]]

CompletedBy(r) ==
    runner[r].pc = "done" /\ recorded[r] = entries(r) /\ job.count = Cardinality(entries(r))

RecInv ==
    /\ Shape
    /\ \A r \in Runners : runner[r].pc = "complete" => recorded[r] = entries(r)
    /\ job.status = "COMPLETED" => \E r \in Runners : CompletedBy(r)

(* What the invariant needs to know of a step of runner r.                   *)
SameData(r) == runner'[r].report = runner[r].report /\ runner'[r].txns = runner[r].txns

RunnerMoves(r) ==
    \/ /\ job' = job /\ recorded' = recorded /\ runner'[r].pc # "complete"
    \/ /\ job' = job /\ recorded' = [recorded EXCEPT ![r] = entries(r)] /\ SameData(r)
    \/ /\ job' = job /\ recorded' = [recorded EXCEPT ![r] = {}] /\ runner'[r].pc = "done"
    \/ /\ job'.status # "COMPLETED" /\ recorded' = recorded /\ runner'[r].pc # "complete"
    \/ /\ runner[r].pc = "complete" /\ runner'[r].pc = "done" /\ SameData(r) /\ recorded' = recorded
       /\ job'.count = Cardinality(entries(r))

OneMoves(r) ==
    /\ runner[r].pc # "done"
    /\ \A s \in Runners \ {r} : runner'[s] = runner[s]
    /\ job'.kind = job.kind /\ provider' = provider
    /\ RunnerMoves(r)

(* The records keep their fields.                                            *)
LEMMA GotoShape ==
    ASSUME Shape, NEW r \in Runners, NEW at, goto(r, at)
    PROVE  /\ runner' = [s \in Runners |-> runner'[s]]
           /\ \A s \in Runners : runner'[s] = [f \in RunnerFields |-> runner'[s][f]]
           /\ \A s \in Runners \ {r} : runner'[s] = runner[s]
           /\ runner'[r].pc = at /\ SameData(r)
BY DEF Shape, RunnerFields, goto, SameData

(* Every step of a runner is one of the kinds above.                         *)
LEMMA RunnerSteps ==
    ASSUME Shape, NEW r \in Runners, RunnerStep(r)
    PROVE  Shape' /\ OneMoves(r)
<1>1. CASE RunOnce(r) \/ RunEndpoint(r) \/ RunJob(r)
  <2>1. PICK at \in {"get", "mark", "done"} : goto(r, at)
    BY <1>1 DEF RunOnce, RunEndpoint, RunJob
  <2>2. runner[r].pc # "done" /\ UNCHANGED <<job, recorded, provider>>
    BY <1>1 DEF RunOnce, RunEndpoint, RunJob, others
  <2>3. Shape'
    BY <2>1, <2>2, GotoShape DEF Shape
  <2>4. QED
    BY <2>1, <2>2, <2>3, GotoShape DEF OneMoves, RunnerMoves
<1>2. CASE MarkRunning(r) \/ MarkFailed(r)
  <2>1. PICK at \in {"fetch", "load", "done"} : goto(r, at)
    BY Zenon, <1>2 DEF MarkRunning, MarkFailed
  <2>2. PICK status \in {"RUNNING", "FAILED"} : \E error :
          job' = [job EXCEPT !.status = status, !.count = 0, !.error = error]
    BY Zenon, <1>2 DEF MarkRunning, MarkFailed
  <2>3. job' = [f \in JobFields |-> job'[f]] /\ job'.status # "COMPLETED" /\ job'.kind = job.kind
    BY Zenon, <2>2 DEF Shape, JobFields
  <2>4. runner[r].pc # "done" /\ UNCHANGED <<recorded, provider>>
    BY <1>2 DEF MarkRunning, MarkFailed, others
  <2>5. Shape'
    BY <2>1, <2>3, <2>4, GotoShape DEF Shape
  <2>6. QED
    BY <2>1, <2>3, <2>4, <2>5, GotoShape DEF OneMoves, RunnerMoves
<1>3. CASE FetchSettlementReport(r)
  <2>1. PICK at \in {"load", "insert", "fetch"} : \E report, pages, next :
          runner' = [runner EXCEPT ![r].report = report, ![r].pages = pages, ![r].next = next, ![r].pc = at]
    BY Zenon, <1>3 DEF FetchSettlementReport
  <2>2. runner[r].pc # "done" /\ UNCHANGED <<job, recorded, provider>>
    BY <1>3 DEF FetchSettlementReport, others
  <2>3. /\ runner' = [s \in Runners |-> runner'[s]]
        /\ \A s \in Runners : runner'[s] = [f \in RunnerFields |-> runner'[s][f]]
        /\ \A s \in Runners \ {r} : runner'[s] = runner[s]
        /\ runner'[r].pc = at
    BY <2>1 DEF Shape, RunnerFields
  <2>4. Shape'
    BY <2>2, <2>3 DEF Shape
  <2>5. QED
    BY <2>2, <2>3, <2>4 DEF OneMoves, RunnerMoves
<1>4. CASE LoadTransactions(r)
  <2>1. PICK at \in {"insert", "fetch"} : \E txns : runner' = [runner EXCEPT ![r].txns = txns, ![r].pc = at]
    BY Zenon, <1>4 DEF LoadTransactions
  <2>2. PICK txns : runner' = [runner EXCEPT ![r].txns = txns, ![r].pc = at]
    BY Zenon, <2>1
  <2>3. runner[r].pc # "done" /\ UNCHANGED <<job, recorded, provider>>
    BY <1>4 DEF LoadTransactions, others
  <2>4. /\ runner' = [s \in Runners |-> runner'[s]]
        /\ \A s \in Runners : runner'[s] = [f \in RunnerFields |-> runner'[s][f]]
        /\ \A s \in Runners \ {r} : runner'[s] = runner[s]
        /\ runner'[r].pc = at
    BY Zenon, <2>2 DEF Shape, RunnerFields
  <2>5. Shape'
    BY <2>3, <2>4 DEF Shape
  <2>6. QED
    BY Zenon, <2>1, <2>3, <2>4, <2>5 DEF OneMoves, RunnerMoves
<1>5. CASE InsertEntries(r)
  <2>1. \/ recorded' = [recorded EXCEPT ![r] = entries(r)] /\ goto(r, "complete")
        \/ recorded' = [recorded EXCEPT ![r] = {}] /\ goto(r, "done")
    BY Zenon, <1>5 DEF InsertEntries
  <2>2. runner[r].pc # "done" /\ UNCHANGED <<job, provider>>
    BY <1>5 DEF InsertEntries, others
  <2>3. recorded' = [s \in Runners |-> recorded'[s]]
    BY <2>1 DEF Shape
  <2>4. Shape'
    BY <2>1, <2>2, <2>3, GotoShape DEF Shape
  <2>5. QED
    BY <2>1, <2>2, <2>4, GotoShape DEF OneMoves, RunnerMoves
<1>6. CASE MarkCompleted(r)
  <2>1. goto(r, "done") /\ runner[r].pc = "complete" /\ UNCHANGED <<recorded, provider>>
        /\ job' = [job EXCEPT !.status = "COMPLETED", !.count = Cardinality(entries(r)), !.error = ""]
    BY <1>6 DEF MarkCompleted, others
  <2> DEFINE c == Cardinality(entries(r))
  <2>2. job' = [job EXCEPT !.status = "COMPLETED", !.count = c, !.error = ""]
    BY <2>1
  <2> HIDE DEF c
  <2>3. job' = [f \in JobFields |-> job'[f]] /\ job'.count = c /\ job'.kind = job.kind
    BY Zenon, <2>2 DEF Shape, JobFields
  <2>4. Shape'
    BY Zenon, <2>1, <2>3, GotoShape DEF Shape
  <2>5. QED
    BY <2>1, <2>3, <2>4, GotoShape DEF OneMoves, RunnerMoves, c
<1>7. CASE RunStepFails(r) \/ RunnerDies(r)
  <2>1. PICK at \in {"failed", "done"} : goto(r, at)
    BY <1>7 DEF RunStepFails, RunnerDies
  <2>2. runner[r].pc # "done" /\ UNCHANGED <<job, recorded, provider>>
    BY <1>7 DEF RunStepFails, RunnerDies
  <2>3. Shape'
    BY <2>1, <2>2, GotoShape DEF Shape
  <2>4. QED
    BY <2>1, <2>2, <2>3, GotoShape DEF OneMoves, RunnerMoves
<1>8. QED
  BY <1>1, <1>2, <1>3, <1>4, <1>5, <1>6, <1>7 DEF RunnerStep

(* The entries of a runner whose data stay are the same after the step.      *)
LEMMA EntriesStay ==
    ASSUME NEW r \in Runners, SameData(r), job'.kind = job.kind, provider' = provider
    PROVE  entries(r)' = entries(r)
BY Zenon DEF entries, SameData

(* The invariant holds at first.                                             *)
LEMMA InitRecInv == RecInit => RecInv
<1> SUFFICES ASSUME RecInit PROVE RecInv
  OBVIOUS
<1>1. runner = [r \in Runners |-> Idle] /\ recorded = [r \in Runners |-> {}]
  BY DEF RecInit
<1>2. \A r \in Runners : runner[r].pc = "idle" /\ runner[r] = [f \in RunnerFields |-> runner[r][f]]
  BY <1>1 DEF Idle, RunnerFields
<1>3. job = [f \in JobFields |-> job[f]] /\ job.status = "PENDING"
  <2>1. PICK by, kind, txns : job = CreateJob(by, kind, txns)
    BY Zenon DEF RecInit
  <2> DEFINE error == IF by = "ops" THEN Null ELSE ""
  <2>2. job = [status |-> "PENDING", by |-> by, kind |-> kind, txns |-> txns, count |-> 0, error |-> error]
    BY Zenon, <2>1 DEF CreateJob
  <2> HIDE DEF error
  <2>3. QED
    BY <2>2 DEF JobFields
<1>4. Shape
  BY <1>1, <1>2, <1>3 DEF Shape
<1>5. QED
  BY Zenon, <1>2, <1>3, <1>4 DEF RecInv

(* Every step keeps it.                                                      *)
LEMMA NextRecInv == RecInv /\ [RecNext]_recVars => RecInv'
<1> SUFFICES ASSUME RecInv, [RecNext]_recVars PROVE RecInv'
  OBVIOUS
<1>1. CASE UNCHANGED <<job, recorded, provider, runner>>
  <2>1. \A r \in Runners : entries(r)' = entries(r)
    BY <1>1, EntriesStay DEF SameData
  <2>2. QED
    BY Zenon, <1>1, <2>1 DEF RecInv, Shape, CompletedBy
<1>2. ASSUME NEW r \in Runners, RunnerStep(r) PROVE RecInv'
  <2>1. Shape /\ Shape' /\ OneMoves(r)
    BY <1>2, RunnerSteps DEF RecInv
  <2>2. \A s \in Runners \ {r} : runner'[s] = runner[s] /\ entries(s)' = entries(s)
    BY <2>1, EntriesStay DEF OneMoves, SameData
  <2>3. SameData(r) => entries(r)' = entries(r)
    BY <2>1, EntriesStay DEF OneMoves
  <2>4. /\ recorded'[r] = recorded[r] \/ recorded'[r] = entries(r) \/ recorded'[r] = {}
        /\ \A s \in Runners \ {r} : recorded'[s] = recorded[s]
    BY <2>1 DEF OneMoves, RunnerMoves, Shape
  <2>5. runner'[r].pc = "complete" => recorded'[r] = entries(r)'
    <3>1. CASE runner'[r].pc = "complete" /\ recorded' = [recorded EXCEPT ![r] = entries(r)] /\ SameData(r)
      BY <2>1, <2>3, <3>1 DEF Shape
    <3>2. QED
      BY <2>1, <3>1 DEF OneMoves, RunnerMoves
  <2>6. \A s \in Runners : runner'[s].pc = "complete" => recorded'[s] = entries(s)'
    BY <2>2, <2>4, <2>5 DEF RecInv
  <2>7. ASSUME job'.status = "COMPLETED" PROVE \E s \in Runners : CompletedBy(s)'
    <3>1. CASE job' = job
      <4>1. PICK s \in Runners : CompletedBy(s)
        BY <2>7, <3>1 DEF RecInv
      <4>2. s # r
        BY <2>1, <4>1 DEF CompletedBy, OneMoves
      <4>3. CompletedBy(s)'
        BY <2>2, <2>4, <3>1, <4>1, <4>2 DEF CompletedBy
      <4>4. QED
        BY <4>3
    <3>2. CASE /\ runner[r].pc = "complete" /\ runner'[r].pc = "done" /\ SameData(r) /\ recorded' = recorded
               /\ job'.count = Cardinality(entries(r))
      <4>1. recorded[r] = entries(r) /\ entries(r)' = entries(r)
        BY <2>3, <3>2 DEF RecInv
      <4>2. CompletedBy(r)'
        BY <3>2, <4>1 DEF CompletedBy
      <4>3. QED
        BY <4>2
    <3>3. QED
      BY <2>1, <2>7, <3>1, <3>2 DEF OneMoves, RunnerMoves
  <2>8. QED
    BY <2>1, <2>6, <2>7 DEF RecInv
<1>3. QED
  BY <1>1, <1>2 DEF RecNext, recVars, GatewayBooks, GatewayCaptures, TxnMoves

(* A COMPLETED job counts entries that one run has found and put on record,  *)
(* for any number of runners of the job, any books and any faults            *)
(* (service.go:108-120).                                                     *)
THEOREM CompletedJobsRecorded == RecSpec => []CompletedIsRecorded
<1>1. RecInv => CompletedIsRecorded
  BY DEF RecInv, CompletedBy, CompletedIsRecorded
<1>2. QED
  BY <1>1, InitRecInv, NextRecInv, PTL DEF RecSpec

-----------------------------------------------------------------------------
(* The rate limiter. A request in progress is a record, and the reading of   *)
(* the clock it carries is a time.                                           *)
CallOK(c) ==
    /\ c = [pc |-> c.pc, req |-> c.req, now |-> c.now, held |-> c.held, i |-> c.i, ok |-> c.ok]
    /\ c.now \in Nat

LimiterInv ==
    /\ clock \in Nat
    /\ shared \in [Buckets -> [tokens : 0 .. Capacity, last : Nat]]
    /\ spent \in [Buckets -> Nat] /\ regress \in [Buckets -> Nat]
    /\ DOMAIN call = Threads /\ \A t \in Threads : CallOK(call[t])
    /\ SharedLimit

(* Steps that leave the shared buckets alone.                                *)
LEMMA BucketsKept ==
    ASSUME LimiterInv, history, UNCHANGED shared, clock' \in Nat,
           DOMAIN call' = Threads, \A t \in Threads : CallOK(call'[t])
    PROVE  LimiterInv'
BY DEF LimiterInv, SharedLimit, history

(* A request that goes on.                                                   *)
LEMMA CallKept ==
    ASSUME DOMAIN call = Threads, \A t \in Threads : CallOK(call[t]),
           NEW t \in Threads, NEW c, CallOK(c), call' = [call EXCEPT ![t] = c]
    PROVE  DOMAIN call' = Threads /\ \A u \in Threads : CallOK(call'[u])
OBVIOUS

LEMMA CallSet ==
    ASSUME NEW c, CallOK(c), NEW x
    PROVE  /\ CallOK([c EXCEPT !.pc = x]) /\ CallOK([c EXCEPT !.ok = x])
           /\ CallOK([c EXCEPT !.i = x]) /\ CallOK([c EXCEPT !.held = x])
           /\ CallOK([c EXCEPT !.req = x])
           /\ x \in Nat => CallOK([c EXCEPT !.now = x])
<1>1. c = [pc |-> c.pc, req |-> c.req, now |-> c.now, held |-> c.held, i |-> c.i, ok |-> c.ok] /\ c.now \in Nat
  BY DEF CallOK
<1>2. [c EXCEPT !.pc = x] = [pc |-> x, req |-> c.req, now |-> c.now, held |-> c.held, i |-> c.i, ok |-> c.ok]
  BY <1>1
<1>3. [c EXCEPT !.ok = x] = [pc |-> c.pc, req |-> c.req, now |-> c.now, held |-> c.held, i |-> c.i, ok |-> x]
  BY <1>1
<1>4. [c EXCEPT !.i = x] = [pc |-> c.pc, req |-> c.req, now |-> c.now, held |-> c.held, i |-> x, ok |-> c.ok]
  BY <1>1
<1>5. [c EXCEPT !.held = x] = [pc |-> c.pc, req |-> c.req, now |-> c.now, held |-> x, i |-> c.i, ok |-> c.ok]
  BY <1>1
<1>6. [c EXCEPT !.req = x] = [pc |-> c.pc, req |-> x, now |-> c.now, held |-> c.held, i |-> c.i, ok |-> c.ok]
  BY <1>1
<1>7. [c EXCEPT !.now = x] = [pc |-> c.pc, req |-> c.req, now |-> x, held |-> c.held, i |-> c.i, ok |-> c.ok]
  BY <1>1
<1>8. QED
  BY <1>1, <1>2, <1>3, <1>4, <1>5, <1>6, <1>7 DEF CallOK

LEMMA IdleCallOK == CallOK(IdleCall)
BY DEF CallOK, IdleCall

(* The smaller and the larger of two numbers.                                *)
LEMMA MinOf ==
    ASSUME NEW a \in Int, NEW b \in Int
    PROVE  Min({a, b}) \in {a, b} /\ Min({a, b}) <= a /\ Min({a, b}) <= b
BY DEF Min

LEMMA MaxOf ==
    ASSUME NEW a \in Int, NEW b \in Int
    PROVE  Max({a, b}) \in {a, b} /\ Max({a, b}) >= a /\ Max({a, b}) >= b
BY DEF Max

(* Time that has passed never counts as negative.                            *)
LEMMA Elapsed ==
    ASSUME NEW a \in Nat, NEW b \in Nat
    PROVE  Max({0, a - b}) = IF a >= b THEN a - b ELSE 0
<1> DEFINE d == a - b
<1>1. d \in Int
  OBVIOUS
<1> HIDE DEF d
<1>2. Max({0, d}) \in {0, d} /\ Max({0, d}) >= 0 /\ Max({0, d}) >= d
  BY <1>1, MaxOf
<1>3. Max({0, d}) = IF d >= 0 THEN d ELSE 0
  BY <1>1, <1>2
<1>4. (d >= 0 <=> a >= b) /\ d = a - b
  BY DEF d
<1>5. QED
  BY <1>3, <1>4 DEF d

LEMMA Product ==
    ASSUME NEW a \in Nat, NEW b \in Nat
    PROVE  a * b \in Nat
OBVIOUS

LEMMA Distributes ==
    ASSUME NEW a \in Nat, NEW b \in Int, NEW c \in Int
    PROVE  a * (b + c) = a * b + a * c /\ a * b \in Int
OBVIOUS

(* What the script finds in a bucket.                                        *)
LEMMA Refill ==
    ASSUME NEW tokens \in 0 .. Capacity, NEW e \in Nat
    PROVE  LET full == Min({Capacity, tokens + Rate * e})
           IN  full \in 0 .. Capacity /\ full <= tokens + Rate * e /\ Rate * e \in Nat
<1> DEFINE x == tokens + Rate * e
<1>1. Capacity \in Nat /\ Rate \in Nat
  BY LimiterConstants
<1>2. Rate * e \in Nat
  BY <1>1, Product
<1>3. x \in Nat
  BY <1>1, <1>2
<1> HIDE DEF x
<1>4. Min({Capacity, x}) \in {Capacity, x} /\ Min({Capacity, x}) <= Capacity /\ Min({Capacity, x}) <= x
  BY <1>1, <1>3, MinOf
<1>5. Min({Capacity, x}) \in 0 .. Capacity
  BY <1>1, <1>3, <1>4
<1>6. QED
  BY <1>2, <1>4, <1>5 DEF x

(* What it leaves, and the limit.                                            *)
LimitBefore(tokens, last, took, back, now, cost, full) ==
    /\ tokens \in 0 .. Capacity /\ last \in Nat /\ took \in Nat /\ back \in Nat
    /\ now \in Nat /\ cost \in {0, 1} /\ full \in 0 .. Capacity
    /\ full <= tokens + Rate * Max({0, now - last})
    /\ took + tokens <= Capacity + Rate * (last + back)
    /\ full >= cost

LEMMA ScriptLimit ==
    ASSUME NEW tokens, NEW last, NEW took, NEW back, NEW now, NEW cost, NEW full,
           LimitBefore(tokens, last, took, back, now, cost, full)
    PROVE  /\ full - cost \in 0 .. Capacity /\ Max({0, last - now}) \in Nat
           /\ took + cost + (full - cost) <= Capacity + Rate * (now + (back + Max({0, last - now})))
<1> DEFINE e == Max({0, now - last})
           again == Max({0, last - now})
           gain == Rate * e
           was == Rate * (last + back)
           is == Rate * (now + (back + again))
<1>0. /\ Capacity \in Nat /\ Rate \in Nat
      /\ tokens \in 0 .. Capacity /\ last \in Nat /\ took \in Nat /\ back \in Nat
      /\ now \in Nat /\ cost \in {0, 1} /\ full \in 0 .. Capacity /\ full >= cost
  BY Zenon, LimiterConstants DEF LimitBefore
<1>1. e = (IF now >= last THEN now - last ELSE 0) /\ again = IF last >= now THEN last - now ELSE 0
  BY Zenon, <1>0, Elapsed
<1>2. full <= tokens + gain /\ took + tokens <= Capacity + was
  BY Zenon DEF LimitBefore
<1> HIDE DEF e, again
<1>3. e \in Nat /\ again \in Nat /\ now + (back + again) = (last + back) + e
  BY <1>0, <1>1
<1>4. is = was + gain /\ was \in Int /\ gain \in Nat
  <2>1. Rate * ((last + back) + e) = Rate * (last + back) + Rate * e /\ Rate * (last + back) \in Int
    BY <1>0, <1>3, Distributes
  <2>2. Rate * e \in Nat
    BY <1>0, <1>3, Product
  <2>3. QED
    BY <1>3, <2>1, <2>2
<1> HIDE DEF was, is, gain
<1>5. full - cost \in 0 .. Capacity /\ took + cost + (full - cost) <= Capacity + is
  BY <1>0, <1>2, <1>4
<1>6. QED
  BY <1>3, <1>5 DEF again, is

(* The script keeps the limit of every bucket it writes.                     *)
LEMMA ScriptKeeps ==
    ASSUME LimiterInv, NEW t \in Threads, ExecScript(t)
    PROVE  LimiterInv'
<1> DEFINE now == call[t].now
           ks == keysOf(call[t].req)
           allowed == \A k \in ks : refilled(k, now) >= 1
           cost == IF allowed THEN 1 ELSE 0
           again(k) == Max({0, shared[k].last - now})
<1>1. /\ shared' = [k \in Buckets |-> IF k \in ks THEN [tokens |-> refilled(k, now) - cost, last |-> now]
                                                 ELSE shared[k]]
      /\ spent' = [k \in Buckets |-> spent[k] + IF k \in ks THEN cost ELSE 0]
      /\ regress' = [k \in Buckets |-> regress[k] + IF k \in ks THEN again(k) ELSE 0]
      /\ call' = [call EXCEPT ![t].pc = "answer", ![t].ok = allowed]
      /\ clock' = clock
  BY DEF ExecScript, TokenBucket
<1>2. /\ now \in Nat /\ clock \in Nat /\ CallOK(call[t])
      /\ DOMAIN call = Threads /\ \A u \in Threads : CallOK(call[u])
  BY DEF LimiterInv, CallOK
<1>3. DOMAIN call' = Threads /\ \A u \in Threads : CallOK(call'[u])
  <2> DEFINE c == [[call[t] EXCEPT !.pc = "answer"] EXCEPT !.ok = allowed]
  <2>1. CallOK(c) /\ call' = [call EXCEPT ![t] = c]
    BY Zenon, <1>1, <1>2, CallSet
  <2> HIDE DEF c
  <2>2. QED
    BY <1>2, <2>1, CallKept
<1>4. cost \in {0, 1} /\ \A k \in ks : cost = 1 => refilled(k, now) >= cost
  OBVIOUS
<1> HIDE DEF allowed, cost, now, ks
<1>5. ASSUME NEW k \in Buckets
      PROVE  /\ shared[k].tokens \in 0 .. Capacity /\ shared[k].last \in Nat
             /\ shared[k] \in [tokens : 0 .. Capacity, last : Nat]
             /\ spent[k] \in Nat /\ regress[k] \in Nat
             /\ spent[k] + shared[k].tokens <= Capacity + Rate * (shared[k].last + regress[k])
  BY DEF LimiterInv, SharedLimit
<1>6. ASSUME NEW k \in Buckets, k \in ks
      PROVE  /\ refilled(k, now) - cost \in 0 .. Capacity /\ again(k) \in Nat
             /\ spent[k] + cost + (refilled(k, now) - cost)
                  <= Capacity + Rate * (now + (regress[k] + again(k)))
  <2> DEFINE e == Max({0, now - shared[k].last})
  <2>2. e \in Nat
    <3>1. now \in Nat /\ shared[k].last \in Nat
      BY <1>2, <1>5 DEF now
    <3>2. e = IF now >= shared[k].last THEN now - shared[k].last ELSE 0
      BY Zenon, <3>1, Elapsed
    <3>3. QED
      BY <3>1, <3>2
  <2>3. refilled(k, now) = Min({Capacity, shared[k].tokens + Rate * e})
    BY DEF refilled
  <2> HIDE DEF e
  <2>4. refilled(k, now) \in 0 .. Capacity /\ refilled(k, now) <= shared[k].tokens + Rate * e
    BY Zenon, <1>5, <2>2, <2>3, Refill
  <2>5. refilled(k, now) >= cost
    BY <1>4, <1>6, <2>4
  <2>6. LimitBefore(shared[k].tokens, shared[k].last, spent[k], regress[k], now, cost, refilled(k, now))
    BY Zenon, <1>2, <1>4, <1>5, <2>4, <2>5 DEF LimitBefore, e
  <2>7. QED
    BY Zenon, <2>6, ScriptLimit
<1> HIDE DEF again
<1>7. shared' \in [Buckets -> [tokens : 0 .. Capacity, last : Nat]]
  BY <1>1, <1>2, <1>5, <1>6
<1>8. spent' \in [Buckets -> Nat] /\ regress' \in [Buckets -> Nat]
  BY <1>1, <1>4, <1>5, <1>6
<1>9. ASSUME NEW k \in Buckets
      PROVE  /\ shared'[k].tokens \in 0 .. Capacity
             /\ spent'[k] + shared'[k].tokens <= Capacity + Rate * (shared'[k].last + regress'[k])
  <2>1. CASE k \in ks
    <3>1. /\ shared'[k].tokens = refilled(k, now) - cost /\ shared'[k].last = now
          /\ spent'[k] = spent[k] + cost /\ regress'[k] = regress[k] + again(k)
      BY <1>1, <2>1
    <3>2. QED
      BY <1>6, <2>1, <3>1
  <2>2. CASE k \notin ks
    <3>1. shared'[k] = shared[k] /\ spent'[k] = spent[k] /\ regress'[k] = regress[k]
      BY <1>1, <1>5, <2>2
    <3>2. QED
      BY <1>5, <3>1
  <2>3. QED
    BY <2>1, <2>2
<1>10. QED
  BY <1>1, <1>2, <1>3, <1>7, <1>8, <1>9 DEF LimiterInv, SharedLimit

(* The steps of a request that leave the shared buckets alone.               *)
LEMMA RequestKeeps ==
    ASSUME LimiterInv, NEW t \in Threads, NEW c, CallOK(c), call' = [call EXCEPT ![t] = c],
           UNCHANGED <<clock, shared>>, history
    PROVE  LimiterInv'
<1>1. clock' \in Nat /\ DOMAIN call = Threads /\ \A u \in Threads : CallOK(call[u])
  BY DEF LimiterInv
<1>2. DOMAIN call' = Threads /\ \A u \in Threads : CallOK(call'[u])
  BY <1>1, CallKept
<1>3. QED
  BY Zenon, <1>1, <1>2, BucketsKept

LEMMA AllowKeeps ==
    ASSUME LimiterInv, NEW t \in Threads, Allow(t)
    PROVE  LimiterInv'
<1>1. PICK r \in Requests[t] :
         call' = [call EXCEPT ![t] = IF available
                    THEN [[[IdleCall EXCEPT !.pc = "exec"] EXCEPT !.req = r] EXCEPT !.now = clock]
                    ELSE [[IdleCall EXCEPT !.pc = "load"] EXCEPT !.req = r]]
  BY Zenon DEF Allow
<1>2. clock \in Nat
  BY DEF LimiterInv
<1> DEFINE c == [[[IdleCall EXCEPT !.pc = "exec"] EXCEPT !.req = r] EXCEPT !.now = clock]
           d == [[IdleCall EXCEPT !.pc = "load"] EXCEPT !.req = r]
<1>3. CallOK(c) /\ CallOK(d)
  BY Zenon, <1>2, IdleCallOK, CallSet
<1>4. call' = [call EXCEPT ![t] = IF available THEN c ELSE d]
  BY <1>1
<1> HIDE DEF c, d
<1>5. CallOK(IF available THEN c ELSE d)
  BY <1>3
<1>6. QED
  BY Zenon, <1>4, <1>5, RequestKeeps DEF Allow

LEMMA AnswerKeeps ==
    ASSUME LimiterInv, NEW t \in Threads, Answer(t) \/ NoAnswer(t) \/ MarkUnavailable(t)
    PROVE  LimiterInv'
<1>0. CallOK(call[t]) /\ 0 \in Nat
  BY DEF LimiterInv
<1>1. CASE Answer(t)
  BY Zenon, <1>1, IdleCallOK, RequestKeeps DEF Answer
<1>2. CASE NoAnswer(t)
  <2> DEFINE x == IF failures + 1 >= failureThreshold THEN "mark" ELSE "load"
             c == [[[call[t] EXCEPT !.pc = x] EXCEPT !.now = 0] EXCEPT !.ok = TRUE]
  <2>1. CallOK(c) /\ call' = [call EXCEPT ![t] = c]
    BY Zenon, <1>0, <1>2, CallSet DEF NoAnswer
  <2> HIDE DEF c
  <2>2. QED
    BY Zenon, <1>2, <2>1, RequestKeeps DEF NoAnswer
<1>3. CASE MarkUnavailable(t)
  <2> DEFINE c == [call[t] EXCEPT !.pc = "load"]
  <2>1. CallOK(c) /\ call' = [call EXCEPT ![t] = c]
    BY Zenon, <1>0, <1>3, CallSet DEF MarkUnavailable
  <2> HIDE DEF c
  <2>2. QED
    BY Zenon, <1>3, <2>1, RequestKeeps DEF MarkUnavailable
<1>4. QED
  BY <1>1, <1>2, <1>3

(* Finding or making the local buckets.                                      *)
LEMMA TakeOK ==
    ASSUME LimiterInv, NEW t \in Threads, NEW b
    PROVE  \E c : CallOK(c) /\ take(t, b) = [call EXCEPT ![t] = c]
<1> DEFINE c == [[call[t] EXCEPT !.held = Append(call[t].held, b)]
                   EXCEPT !.pc = IF Len(call[t].held) = 2 THEN "now" ELSE "load"]
<1>1. CallOK(call[t])
  BY DEF LimiterInv
<1>2. CallOK(c) /\ take(t, b) = [call EXCEPT ![t] = c]
  BY Zenon, <1>1, CallSet DEF take
<1>3. QED
  BY Zenon, <1>2

LEMMA FindKeeps ==
    ASSUME LimiterInv, NEW t \in Threads, Load(t) \/ MoveToFront(t) \/ CreateBucket(t)
    PROVE  LimiterInv'
<1>0. CallOK(call[t])
  BY DEF LimiterInv
<1>1. ASSUME NEW x, call' = [call EXCEPT ![t] = [call[t] EXCEPT !.pc = x]],
             UNCHANGED <<clock, shared>>, history
      PROVE  LimiterInv'
  BY Zenon, <1>0, <1>1, CallSet, RequestKeeps
<1>2. ASSUME NEW b, call' = take(t, b), UNCHANGED <<clock, shared>>, history
      PROVE  LimiterInv'
  <2>1. PICK c : CallOK(c) /\ take(t, b) = [call EXCEPT ![t] = c]
    BY TakeOK
  <2>2. QED
    BY Zenon, <1>2, <2>1, RequestKeeps
<1>3. CASE Load(t)
  <2> DEFINE x == IF localBuckets[wanted(t)] # NoPlace THEN "front" ELSE "create"
  <2>1. call' = [call EXCEPT ![t] = [call[t] EXCEPT !.pc = x]]
    BY <1>3 DEF Load
  <2>2. UNCHANGED <<clock, shared>> /\ history
    BY <1>3 DEF Load
  <2> HIDE DEF x
  <2>3. QED
    BY Zenon, <1>1, <2>1, <2>2
<1>4. CASE MoveToFront(t)
  <2>1. UNCHANGED <<clock, shared>> /\ history
    BY <1>4 DEF MoveToFront
  <2>2. CASE call' = take(t, localBuckets[wanted(t)])
    BY <1>2, <2>1, <2>2
  <2>3. CASE call' = [call EXCEPT ![t].pc = "create"]
    <3>1. call' = [call EXCEPT ![t] = [call[t] EXCEPT !.pc = "create"]]
      BY <2>3
    <3>2. QED
      BY Zenon, <1>1, <2>1, <3>1
  <2>4. QED
    BY <1>4, <2>2, <2>3 DEF MoveToFront
<1>5. CASE CreateBucket(t)
  <2>1. UNCHANGED <<clock, shared>> /\ history
    BY Zenon, <1>5 DEF CreateBucket
  <2>2. \E b : call' = take(t, b)
    BY Zenon, <1>5 DEF CreateBucket, insert
  <2>3. QED
    BY <1>2, <2>1, <2>2
<1>6. QED
  BY <1>3, <1>4, <1>5

(* Checking them and taking a token.                                         *)
LEMMA LocalKeeps ==
    ASSUME LimiterInv, NEW t \in Threads, ReadClock(t) \/ CheckBucket(t) \/ TakeToken(t)
    PROVE  LimiterInv'
<1>0. CallOK(call[t]) /\ clock \in Nat /\ 0 \in Nat
  BY DEF LimiterInv
<1>1. UNCHANGED <<clock, shared>> /\ history
  BY Zenon DEF ReadClock, CheckBucket, TakeToken
<1>2. CASE ReadClock(t)
  <2> DEFINE c == [[call[t] EXCEPT !.pc = "check"] EXCEPT !.now = clock]
  <2>1. CallOK(c) /\ call' = [call EXCEPT ![t] = c]
    BY Zenon, <1>0, <1>2, CallSet DEF ReadClock
  <2> HIDE DEF c
  <2>2. QED
    BY Zenon, <1>1, <2>1, RequestKeeps
<1>3. CASE \E k, x : call' = [call EXCEPT ![t].i = k, ![t].ok = x]
  <2>1. PICK k, x : call' = [call EXCEPT ![t].i = k, ![t].ok = x]
    BY Zenon, <1>3
  <2> DEFINE c == [[call[t] EXCEPT !.i = k] EXCEPT !.ok = x]
  <2>2. CallOK(c) /\ call' = [call EXCEPT ![t] = c]
    BY Zenon, <1>0, <2>1, CallSet
  <2> HIDE DEF c
  <2>3. QED
    BY Zenon, <1>1, <2>2, RequestKeeps
<1>4. CASE call' = [call EXCEPT ![t].i = 1, ![t].pc = "take", ![t].now = 0]
  <2> DEFINE c == [[[call[t] EXCEPT !.i = 1] EXCEPT !.pc = "take"] EXCEPT !.now = 0]
  <2>1. CallOK(c) /\ call' = [call EXCEPT ![t] = c]
    BY Zenon, <1>0, <1>4, CallSet
  <2> HIDE DEF c
  <2>2. QED
    BY <1>1, <2>1, RequestKeeps
<1>5. CASE call' = [call EXCEPT ![t].i = call[t].i + 1]
  <2> DEFINE c == [call[t] EXCEPT !.i = call[t].i + 1]
  <2>1. CallOK(c) /\ call' = [call EXCEPT ![t] = c]
    BY Zenon, <1>0, <1>5, CallSet
  <2> HIDE DEF c
  <2>2. QED
    BY <1>1, <2>1, RequestKeeps
<1>6. CASE call' = [call EXCEPT ![t] = IdleCall]
  BY Zenon, <1>1, <1>6, IdleCallOK, RequestKeeps
<1>7. CASE CheckBucket(t)
  BY Zenon, <1>3, <1>4, <1>6, <1>7 DEF CheckBucket
<1>8. CASE TakeToken(t)
  BY Zenon, <1>5, <1>6, <1>8 DEF TakeToken
<1>9. QED
  BY <1>2, <1>7, <1>8

(* A shared bucket gives its capacity, what time refills, and what older     *)
(* readings of the clock refill again (scripts.go:33, :55): for any capacity *)
(* and rate, any number of requests, and outages at any moment.              *)
THEOREM BucketsLimit == LSpec => []SharedLimit
<1>1. LInit => LimiterInv
  <2> SUFFICES ASSUME LInit PROVE LimiterInv
    OBVIOUS
  <2>1. Capacity \in Nat /\ Rate * (0 + 0) \in Nat
    BY LimiterConstants, Product
  <2>2. SharedLimit
    BY <2>1 DEF LInit, SharedLimit
  <2>3. DOMAIN call = Threads /\ \A t \in Threads : CallOK(call[t])
    BY IdleCallOK DEF LInit
  <2>4. QED
    BY <2>1, <2>2, <2>3 DEF LInit, LimiterInv
<1>2. LimiterInv /\ [LNext]_limiterVars => LimiterInv'
  <2> SUFFICES ASSUME LimiterInv, [LNext]_limiterVars
               PROVE  LimiterInv'
    OBVIOUS
  <2>0. clock \in Nat /\ DOMAIN call = Threads /\ \A t \in Threads : CallOK(call[t])
    BY DEF LimiterInv
  <2>1. ASSUME NEW t \in Threads, Allow(t) \/ Step(t)
        PROVE  LimiterInv'
    BY <2>1, AllowKeeps, ScriptKeeps, AnswerKeeps, FindKeeps, LocalKeeps DEF Step
  <2>2. CASE Ping \/ ZeroFailures \/ ValkeyDown \/ ValkeyUp
    <3>1. UNCHANGED <<clock, shared, call>> /\ history
      BY <2>2 DEF Ping, ZeroFailures, ValkeyDown, ValkeyUp
    <3>2. QED
      BY <2>0, <3>1, BucketsKept
  <2>3. CASE Tick
    <3>1. clock' \in Nat /\ UNCHANGED <<shared, call>> /\ history
      BY <2>0, <2>3 DEF Tick
    <3>2. QED
      BY <2>0, <3>1, BucketsKept
  <2>4. CASE UNCHANGED limiterVars
    <3>1. UNCHANGED <<clock, shared, call>> /\ history
      BY <2>4 DEF limiterVars, history
    <3>2. QED
      BY <2>0, <3>1, BucketsKept
  <2>5. QED
    BY <2>1, <2>2, <2>3, <2>4 DEF LNext
<1>3. LimiterInv => SharedLimit
  BY DEF LimiterInv
<1>4. QED
  BY <1>1, <1>2, <1>3, PTL DEF LSpec
=============================================================================
