-------------------------- MODULE IdempotencyGuard --------------------------
(***************************************************************************)
(* The two idempotency layers of an API request: the response cache of the *)
(* HTTP middleware, and Guard.Execute, which reserves the key, performs    *)
(* the operation and completes the key in one database transaction.        *)
(*                                                                         *)
(* A client repeats its request until it is answered for good. The unique  *)
(* key makes a second Reserve wait for the transaction that holds it.      *)
(***************************************************************************)
EXTENDS Naturals, Sequences

CONSTANTS
    Clients,      \* clients, or attempts in flight of one client
    Keys,         \* composite keys: tenant, operation, Idempotency-Key
    Bodies,       \* request bodies
    requestHash(_), \* what RequestHash keeps of a body
    NoOne,        \* no transaction holds a key
    MaxFaults,    \* bound: failed operations, commits and crashes
    MaxExpiries   \* bound: keys deleted after 24 hours

ASSUME GuardConstants ==
    /\ NoOne \notin Clients
    /\ MaxFaults \in Nat
    /\ MaxExpiries \in Nat

VARIABLES
    request, log, answer,   \* as in OnceOnly
    keyRow,    \* idempotency_keys, committed: COMPLETED rows by their result, or 0
    holder,    \* the transaction with an uncommitted reservation of a key
    cached,    \* valkey: the 2xx response cached for a request, or 0
    pc,        \* where each request is
    faults, expiries

gvars == <<request, log, answer, keyRow, holder, cached, pc, faults, expiries>>

RequestType == [key : Keys, body : Bodies]
Verdicts == {"none", "error", "in_progress", "key_reused", "created", "replayed"}
Steps == {"idle", "reserve", "lookup", "op", "commit", "put"}

Once == INSTANCE OnceOnly WITH live <- keyRow

GInit ==
    /\ request \in [Clients -> RequestType]
    /\ log = <<>>
    /\ answer = [c \in Clients |-> Once!Unanswered]
    /\ keyRow = [k \in Keys |-> 0]
    /\ holder = [k \in Keys |-> NoOne]
    /\ cached = [r \in RequestType |-> 0]
    /\ pc = [c \in Clients |-> "idle"]
    /\ faults = 0
    /\ expiries = 0

Key(c) == request[c].key
Goto(c, step) == pc' = [pc EXCEPT ![c] = step]
Say(c, verdict, result) == answer' = [answer EXCEPT ![c] = [verdict |-> verdict, result |-> result]]
Fault == faults < MaxFaults /\ faults' = faults + 1

-----------------------------------------------------------------------------
(* The client asks, or asks again after an answer that is not final; the    *)
(* middleware looks the request up under key, path and body.                *)
Final(c) == answer[c].verdict \in {"created", "replayed", "key_reused"}

cacheKeyWithoutBody(c) ==
    IF \E r \in RequestType : r.key = Key(c) /\ cached[r] # 0
    THEN CHOOSE r \in RequestType : r.key = Key(c) /\ cached[r] # 0
    ELSE request[c]

cacheKey(c) == request[c]

ResponseCache(c) ==
    /\ pc[c] = "idle"
    /\ ~ Final(c)
    /\ \/ cached[cacheKey(c)] # 0 /\ Say(c, "replayed", cached[cacheKey(c)]) /\ UNCHANGED pc
       \/ cached[cacheKey(c)] = 0 /\ Goto(c, "reserve") /\ UNCHANGED answer
    /\ UNCHANGED <<request, log, keyRow, holder, cached, faults, expiries>>

(* Reserve: INSERT ... ON CONFLICT DO NOTHING. A concurrent reservation is  *)
(* waited for; a committed row sends the request to Lookup.                 *)
ReserveAnyway(c) ==
    /\ pc[c] = "reserve"
    /\ holder' = [holder EXCEPT ![Key(c)] = c]
    /\ Goto(c, "op")
    /\ UNCHANGED <<request, log, answer, keyRow, cached, faults, expiries>>

Reserve(c) ==
    /\ pc[c] = "reserve"
    /\ holder[Key(c)] = NoOne
    /\ \/ keyRow[Key(c)] = 0 /\ holder' = [holder EXCEPT ![Key(c)] = c] /\ Goto(c, "op")
       \/ keyRow[Key(c)] # 0 /\ UNCHANGED holder /\ Goto(c, "lookup")
    /\ UNCHANGED <<request, log, answer, keyRow, cached, faults, expiries>>

(* Lookup: the row may have expired since, or belong to another request.    *)
LookupNotCompleted(c) ==
    /\ pc[c] = "lookup"
    /\ Say(c, "in_progress", 0)
    /\ Goto(c, "idle")
    /\ UNCHANGED <<request, log, keyRow, holder, cached, faults, expiries>>

Lookup(c) ==
    LET n == keyRow[Key(c)]
        same == requestHash(log[n].body) = requestHash(request[c].body)
    IN
    /\ pc[c] = "lookup"
    /\ \/ n = 0 /\ Say(c, "in_progress", 0) /\ Goto(c, "idle")
       \/ n # 0 /\ ~ same /\ Say(c, "key_reused", 0) /\ Goto(c, "idle")
       \/ n # 0 /\ same /\ Say(c, "replayed", n) /\ Goto(c, "put")
    /\ UNCHANGED <<request, log, keyRow, holder, cached, faults, expiries>>

(* The operation succeeds, still uncommitted. *)
RunOp(c) ==
    /\ pc[c] = "op"
    /\ Goto(c, "commit")
    /\ UNCHANGED <<request, log, answer, keyRow, holder, cached, faults, expiries>>

(* The operation, Complete or the commit fails: all is rolled back, the     *)
(* reservation included.                                                    *)
Rollback(c) ==
    /\ pc[c] \in {"op", "commit"}
    /\ Fault
    /\ holder' = [holder EXCEPT ![Key(c)] = NoOne]
    /\ Say(c, "error", 0)
    /\ Goto(c, "idle")
    /\ UNCHANGED <<request, log, keyRow, cached, expiries>>

(* The effects of the operation and the COMPLETED key commit together.      *)
Committed(c) ==
    /\ pc[c] = "commit"
    /\ log' = Append(log, request[c])
    /\ keyRow' = [keyRow EXCEPT ![Key(c)] = Len(log) + 1]
    /\ holder' = [holder EXCEPT ![Key(c)] = NoOne]

Commit(c) ==
    /\ Committed(c)
    /\ Say(c, "created", Len(log) + 1)
    /\ Goto(c, "put")
    /\ UNCHANGED <<request, cached, faults, expiries>>

(* They commit, but the client is told of an error: the connection was lost *)
(* during the commit, or what follows it (syncInitiate) failed.             *)
CommitUnknown(c) ==
    /\ Committed(c)
    /\ Fault
    /\ Say(c, "error", 0)
    /\ Goto(c, "idle")
    /\ UNCHANGED <<request, cached, expiries>>

(* The middleware caches the 2xx response and sends it. *)
PutResponse(c) ==
    /\ pc[c] = "put"
    /\ cached' = [cached EXCEPT ![request[c]] = answer[c].result]
    /\ Goto(c, "idle")
    /\ UNCHANGED <<request, log, answer, keyRow, holder, faults, expiries>>

(* The process dies: the database rolls back what it had open, the client   *)
(* sees a broken connection.                                                *)
Crash(c) ==
    /\ pc[c] # "idle"
    /\ Fault
    /\ holder' = [holder EXCEPT ![Key(c)] = IF @ = c THEN NoOne ELSE @]
    /\ Say(c, "error", 0)
    /\ Goto(c, "idle")
    /\ UNCHANGED <<request, log, keyRow, cached, expiries>>

(* sweepIdempotency: DeleteExpired. SweepStaleProcessing finds no committed *)
(* row in PROCESSING, since Reserve and Complete commit together.           *)
DeleteExpired(k) ==
    /\ keyRow[k] # 0
    /\ expiries < MaxExpiries
    /\ expiries' = expiries + 1
    /\ keyRow' = [keyRow EXCEPT ![k] = 0]
    /\ UNCHANGED <<request, log, answer, holder, cached, pc, faults>>

CacheExpires(r) ==
    /\ cached[r] # 0
    /\ cached' = [cached EXCEPT ![r] = 0]
    /\ UNCHANGED <<request, log, answer, keyRow, holder, pc, faults, expiries>>

Handle(c) ==
    \/ ResponseCache(c) \/ Reserve(c) \/ Lookup(c) \/ RunOp(c)
    \/ Commit(c) \/ PutResponse(c)

GNext ==
    \/ \E c \in Clients : Handle(c) \/ Rollback(c) \/ CommitUnknown(c) \/ Crash(c)
    \/ \E k \in Keys : DeleteExpired(k)
    \/ \E r \in RequestType : CacheExpires(r)

GSpec == GInit /\ [][GNext]_gvars

(* A request that has arrived is handled; a client that has no final answer *)
(* asks again.                                                              *)
FairGSpec == GSpec /\ \A c \in Clients : WF_gvars(Handle(c))

-----------------------------------------------------------------------------
(* A key is reserved by at most the request that is performing its          *)
(* operation, never while it is remembered; a remembered or cached result   *)
(* is that of an operation performed for the key.                           *)
ReservationsExclusive ==
    /\ \A c \in Clients : pc[c] \in {"op", "commit"} <=> holder[Key(c)] = c
    /\ \A k \in Keys :
          /\ holder[k] # NoOne => keyRow[k] = 0
          /\ keyRow[k] # 0 => keyRow[k] \in 1..Len(log) /\ log[keyRow[k]].key = k
    /\ \A r \in RequestType :
          cached[r] # 0 => /\ cached[r] \in 1..Len(log) /\ log[cached[r]].key = r.key
                           /\ requestHash(log[cached[r]].body) = requestHash(r.body)

(* However requests of one key interleave, fail, crash or lose their        *)
(* answer, the two layers together keep the promise of OnceOnly.            *)
PerformedOnce == Once!OnceSpec

(* A client that repeats its request is answered for good at last: no       *)
(* failure strands a key.                                                   *)
Answered == \A c \in Clients : <> Final(c)
=============================================================================
