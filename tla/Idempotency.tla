------------------------------- MODULE Idempotency -------------------------------
(***************************************************************************)
(* The middleware enforce_network_and_idempotency of api/app.py around     *)
(* POST requests on /runs, with clients that repeat a request under the    *)
(* same X-Idempotency-Key after a timeout.  The middleware is split at     *)
(* "await call_next"; the body is drained without another request's        *)
(* handler being affected.                                                 *)
(***************************************************************************)
EXTENDS Integers, FiniteSets

CONSTANTS
    Keys,           \* values of X-Idempotency-Key
    Requests,       \* HTTP requests, repetitions included
    Concurrent,     \* whether a client repeats before the first answer
    None

ASSUME KeyAssumption == Concurrent \in BOOLEAN /\ None \notin Keys \cup Requests

VARIABLES
    store,      \* idempotency_store: status and producer of each response
    req,        \* the middleware's coroutine for each request
    effects     \* the requests whose handler changed the run tables

vars == <<store, req, effects>>

\* An entry of the cache: the request it answered first, and its status.
Response == [by : Requests, status : {"2xx", "4xx", "5xx"}]

ASSUME ResponseAssumption == None \notin Response

NoRequest == [pc |-> "unsent", key |-> None, response |-> None, replayed |-> FALSE]

Init == /\ store = [k \in Keys |-> None]
        /\ req = [q \in Requests |-> NoRequest]
        /\ effects = {}

--------------------------------------------------------------------------------

\* Requests with key k whose answer is still outstanding.
InFlight(k) == {q \in Requests : req[q].key = k /\ req[q].pc = "handling"}

Answers(q, response, replayed) ==
    req' = [req EXCEPT ![q].pc = "answered", ![q].response = response,
                       ![q].replayed = replayed]

\* Seeded defect: the cache is written but not consulted.
NeverCached(k) == FALSE

\* key in idempotency_store
IsCached(k) == k # None /\ store[k] # None

\* The allowlist refuses the client before anything else happens.
Forbid(q) ==
    /\ req[q].pc = "unsent"
    /\ req' = [req EXCEPT ![q].pc = "forbidden"]
    /\ UNCHANGED <<store, effects>>

\* The cached response is replayed, or call_next starts the handler.
Receive(q, k) ==
    /\ req[q].pc = "unsent"
    /\ Concurrent \/ k = None \/ InFlight(k) = {}
    /\ req' = [req EXCEPT ![q] =
                  IF IsCached(k)
                  THEN [pc |-> "answered", key |-> k, response |-> store[k], replayed |-> TRUE]
                  ELSE [pc |-> "handling", key |-> k, response |-> None, replayed |-> FALSE]]
    /\ UNCHANGED <<store, effects>>

\* Seeded defect: only successes are cached.
CacheableSuccess(status) == status = "2xx"

\* response.status_code < 500
Cacheable(status) == status # "5xx"

\* The handler has returned, with or without having changed the tables (a
\* denied tool answers 200 and stores nothing, a failed plan stores and
\* answers an error).
Return(q) ==
    /\ req[q].pc = "handling"
    /\ \E status \in {"2xx", "4xx", "5xx"}, effect \in BOOLEAN :
          /\ effects' = IF effect THEN effects \cup {q} ELSE effects
          /\ store' = IF req[q].key # None /\ Cacheable(status)
                      THEN [store EXCEPT ![req[q].key] = [by |-> q, status |-> status]]
                      ELSE store
          /\ Answers(q, [by |-> q, status |-> status], FALSE)

Next == \E q \in Requests : \/ Forbid(q) \/ Return(q)
                            \/ \E k \in Keys \cup {None} : Receive(q, k)

Spec == Init /\ [][Next]_vars

--------------------------------------------------------------------------------
(***************************************************************************)
(* Properties                                                              *)
(***************************************************************************)

Successful(k) == {q \in effects : req[q].key = k /\ req[q].response.status = "2xx"}

\* A request repeated after the first one was answered has no second effect.
\* Concurrent requests are excluded by the bound Concurrent = FALSE.
OneSuccessPerKey == \A k \in Keys : Cardinality(Successful(k)) <= 1

\* A server error is never replayed: the retry reaches the handler again.
ErrorsAreNotReplayed ==
    \A q \in Requests : req[q].replayed => req[q].response.status # "5xx"

\* tests/unit/api/test_network_resilience.py: repeated requests with the same
\* key return the cached response.
SameKeySameAnswer ==
    \A p, q \in Requests :
       /\ req[p].pc = "answered" /\ req[q].pc = "answered"
       /\ req[p].key = req[q].key /\ req[p].key # None
       /\ req[p].response.status = "2xx" /\ req[q].response.status = "2xx"
       => req[p].response = req[q].response

--------------------------------------------------------------------------------
(***************************************************************************)
(* The promise                                                             *)
(***************************************************************************)

\* The answers that were given, with the keys they were given under.
Given == [q \in Requests |->
    IF req[q].pc = "answered" THEN [key |-> req[q].key, response |-> req[q].response]
    ELSE None]

Once == INSTANCE OncePerKey WITH settled <- store, answer <- Given

\* A handler that runs between reading the cache and writing it, and its
\* retries, behave as if each request were answered in one step and each key
\* settled once.  Concurrent requests are excluded by Concurrent = FALSE.
ImplementsOncePerKey == Once!Spec

================================================================================
