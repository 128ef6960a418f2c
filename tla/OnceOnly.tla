------------------------------ MODULE OnceOnly ------------------------------
(***************************************************************************)
(* What the idempotency layers promise to a client that repeats a request: *)
(* while its key is remembered, the operation is performed at most once,   *)
(* an answer carries the result of an operation performed for the same key *)
(* and the same request hash, and a key used for something else is         *)
(* refused. Nothing is promised about how often the client must try.       *)
(***************************************************************************)
EXTENDS Naturals, Sequences

CONSTANTS Clients, Keys, Bodies, requestHash(_)

VARIABLES
    request,   \* what each client asks: a key and a body
    log,       \* the operations performed, in order; a result is its index
    live,      \* the result each key is remembered with, 0 if it is not
    answer     \* the last answer each client was given

onceVars == <<request, log, live, answer>>

Answer == [verdict : {"none", "error", "in_progress", "key_reused"}, result : {0}]
    \cup [verdict : {"created", "replayed"}, result : Nat \ {0}]
Unanswered == [verdict |-> "none", result |-> 0]

(* The n-th operation is one a client may be answered with. *)
SameRequest(c, n) ==
    /\ log[n].key = request[c].key
    /\ requestHash(log[n].body) = requestHash(request[c].body)

OnceInit ==
    /\ request \in [Clients -> [key : Keys, body : Bodies]]
    /\ log = <<>>
    /\ live = [k \in Keys |-> 0]
    /\ answer = [c \in Clients |-> Unanswered]

Say(c, verdict, result) == answer' = [answer EXCEPT ![c] = [verdict |-> verdict, result |-> result]]

(* The operation is performed, for a key that is not remembered. *)
Perform(c) ==
    /\ live[request[c].key] = 0
    /\ log' = Append(log, request[c])
    /\ live' = [live EXCEPT ![request[c].key] = Len(log) + 1]
    /\ Say(c, "created", Len(log) + 1) \/ Say(c, "error", 0)
    /\ UNCHANGED request

Replay(c) ==
    /\ \E n \in 1..Len(log) : SameRequest(c, n) /\ Say(c, "replayed", n)
    /\ UNCHANGED <<request, log, live>>

Refuse(c) ==
    /\ live[request[c].key] # 0
    /\ ~ SameRequest(c, live[request[c].key])
    /\ Say(c, "key_reused", 0)
    /\ UNCHANGED <<request, log, live>>

(* No answer, or one that tells the client to try again. *)
Fail(c) ==
    /\ \E v \in {"none", "error", "in_progress"} : Say(c, v, 0)
    /\ UNCHANGED <<request, log, live>>

Forget(k) ==
    /\ live[k] # 0
    /\ live' = [live EXCEPT ![k] = 0]
    /\ UNCHANGED <<request, log, answer>>

OnceNext ==
    \/ \E c \in Clients : Perform(c) \/ Replay(c) \/ Refuse(c) \/ Fail(c)
    \/ \E k \in Keys : Forget(k)

OnceSpec == OnceInit /\ [][OnceNext]_onceVars
=============================================================================
