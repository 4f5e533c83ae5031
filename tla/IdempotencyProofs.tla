---------------------------- MODULE IdempotencyProofs ----------------------------
(***************************************************************************)
(* Proofs about Idempotency for every number of keys and requests.         *)
(***************************************************************************)
EXTENDS Idempotency, FiniteSetTheorems, TLAPS

Coroutine == [pc : {"unsent", "forbidden", "handling", "answered"},
              key : Keys \cup {None}, response : Response \cup {None},
              replayed : BOOLEAN]

\* What the cache holds, and what each request knows.
KeyTypeOK ==
    /\ store \in [Keys -> Response \cup {None}]
    /\ req \in [Requests -> Coroutine]
    /\ effects \subseteq Requests

\* No server error is cached, and no answer is replayed but a cached one.
CacheableOnly ==
    /\ \A k \in Keys : store[k] # None => store[k].status # "5xx"
    /\ \A q \in Requests : req[q].replayed =>
          req[q].response # None /\ req[q].response.status # "5xx"

\* A key whose response is cached, or whose request is handled, has no other
\* request in flight.
OneInFlight ==
    /\ \A k \in Keys : store[k] # None => InFlight(k) = {}
    /\ \A p, q \in Requests :
          /\ req[p].pc = "handling" /\ req[q].pc = "handling"
          /\ req[p].key = req[q].key /\ req[p].key # None
          => p = q

\* A handler's effects belong to its own answer, and after a success its
\* response is cached.
EffectsAnswered ==
    \A q \in effects :
        /\ req[q].pc = "answered"
        /\ req[q].key # None /\ req[q].response.status = "2xx" => store[req[q].key] # None

\* What the theorem says, for two requests.
NoTwoSuccesses ==
    \A p, q \in effects :
        /\ req[p].key = req[q].key /\ req[p].key # None
        /\ req[p].response.status = "2xx" /\ req[q].response.status = "2xx"
        => p = q

CacheInv == KeyTypeOK /\ CacheableOnly

RetryInv == CacheInv /\ OneInFlight /\ EffectsAnswered /\ NoTwoSuccesses

--------------------------------------------------------------------------------

\* An empty cache satisfies the invariants.
LEMMA KeysStart == Init => RetryInv
  BY DEF Init, RetryInv, CacheInv, KeyTypeOK, CacheableOnly, OneInFlight, InFlight,
         EffectsAnswered, NoTwoSuccesses, NoRequest, Coroutine

\* A refused request changes nothing else.
LEMMA ForbidKeeps ==
    ASSUME CacheInv, NEW q \in Requests, Forbid(q)
    PROVE  CacheInv' /\ (RetryInv => RetryInv')
  <1>1. /\ KeyTypeOK /\ CacheableOnly
        /\ store' = store /\ effects' = effects
        /\ req[q].pc = "unsent"
    BY DEF CacheInv, Forbid
  <1>2. /\ req' \in [Requests -> Coroutine]
        /\ req'[q].pc = "forbidden"
        /\ req'[q].replayed = req[q].replayed /\ req'[q].response = req[q].response
        /\ \A p \in Requests \ {q} : req'[p] = req[p]
    BY <1>1 DEF Forbid, KeyTypeOK, Coroutine
  <1>3. CacheInv'
    BY <1>1, <1>2 DEF CacheInv, KeyTypeOK, CacheableOnly
  <1>4. ASSUME RetryInv PROVE RetryInv'
    <2>1. OneInFlight /\ EffectsAnswered /\ NoTwoSuccesses /\ q \notin effects
      BY <1>1, <1>4 DEF RetryInv, EffectsAnswered
    <2>2. OneInFlight'
      BY <1>1, <1>2, <2>1 DEF OneInFlight, InFlight
    <2>3. EffectsAnswered' /\ NoTwoSuccesses'
      BY <1>1, <1>2, <2>1 DEF EffectsAnswered, NoTwoSuccesses, KeyTypeOK
    <2> QED
      BY <1>3, <2>2, <2>3 DEF RetryInv
  <1> QED
    BY <1>3, <1>4

\* A replayed request is answered, a new one is handled alone.
LEMMA ReceiveKeeps ==
    ASSUME CacheInv, NEW q \in Requests, NEW k \in Keys \cup {None}, Receive(q, k)
    PROVE  CacheInv' /\ (~Concurrent /\ RetryInv => RetryInv')
  <1>1. /\ KeyTypeOK /\ CacheableOnly
        /\ store' = store /\ effects' = effects
        /\ req[q].pc = "unsent"
    BY DEF CacheInv, Receive
  <1> DEFINE next == IF IsCached(k)
                     THEN [pc |-> "answered", key |-> k, response |-> store[k],
                           replayed |-> TRUE]
                     ELSE [pc |-> "handling", key |-> k, response |-> None,
                           replayed |-> FALSE]
  <1>2. IsCached(k) => k \in Keys /\ store[k] \in Response
    BY <1>1 DEF IsCached, KeyTypeOK
  <1>3. next \in Coroutine
    BY <1>2 DEF Coroutine
  <1>4. /\ req' \in [Requests -> Coroutine]
        /\ req'[q] = next
        /\ \A p \in Requests \ {q} : req'[p] = req[p]
    BY <1>1, <1>3 DEF Receive, KeyTypeOK
  <1>5. KeyTypeOK'
    BY <1>1, <1>4 DEF KeyTypeOK
  <1>6. CacheableOnly'
    BY <1>1, <1>2, <1>4, ResponseAssumption DEF CacheableOnly, IsCached
  <1>7. ASSUME ~Concurrent, RetryInv PROVE RetryInv'
    <2>1. OneInFlight /\ EffectsAnswered /\ NoTwoSuccesses /\ q \notin effects
      BY <1>1, <1>7 DEF RetryInv, EffectsAnswered
    <2>2. k = None \/ InFlight(k) = {}
      BY <1>7 DEF Receive
    <2>3. OneInFlight'
      <3>1. CASE IsCached(k)
        BY <3>1, <1>1, <1>4, <2>1 DEF OneInFlight, InFlight
      <3>2. CASE ~IsCached(k)
        <4>1. k \in Keys => store[k] = None
          BY <3>2, KeyAssumption DEF IsCached
        <4> QED
          BY <3>2, <4>1, <1>1, <1>4, <2>1, <2>2 DEF OneInFlight, InFlight
      <3> QED
        BY <3>1, <3>2
    <2>4. EffectsAnswered' /\ NoTwoSuccesses'
      BY <1>1, <1>4, <2>1 DEF EffectsAnswered, NoTwoSuccesses, KeyTypeOK
    <2> QED
      BY <1>5, <1>6, <2>3, <2>4 DEF RetryInv, CacheInv
  <1> QED
    BY <1>5, <1>6, <1>7 DEF CacheInv

\* A handler's answer is cached unless it is a server error.
LEMMA ReturnKeeps ==
    ASSUME CacheInv, NEW q \in Requests, Return(q)
    PROVE  CacheInv' /\ (RetryInv => RetryInv')
  <1>1. KeyTypeOK /\ CacheableOnly /\ req[q].pc = "handling"
    BY DEF CacheInv, Return
  <1>2. PICK status \in {"2xx", "4xx", "5xx"}, effect \in BOOLEAN :
           /\ effects' = IF effect THEN effects \cup {q} ELSE effects
           /\ store' = IF req[q].key # None /\ Cacheable(status)
                       THEN [store EXCEPT ![req[q].key] = [by |-> q, status |-> status]]
                       ELSE store
           /\ Answers(q, [by |-> q, status |-> status], FALSE)
    BY DEF Return
  <1> DEFINE answer == [by |-> q, status |-> status]
             k == req[q].key
  <1>3. answer \in Response /\ answer.status = status /\ answer # None
    BY ResponseAssumption DEF Response
  <1> HIDE DEF answer
  <1>4. /\ req' \in [Requests -> Coroutine]
        /\ req'[q].pc = "answered" /\ req'[q].key = k
        /\ req'[q].response = answer /\ req'[q].replayed = FALSE
        /\ \A p \in Requests \ {q} : req'[p] = req[p]
    BY <1>1, <1>2, <1>3 DEF Answers, KeyTypeOK, Coroutine, answer
  <1>5. /\ store' \in [Keys -> Response \cup {None}]
        /\ k # None /\ status # "5xx" => k \in Keys /\ store'[k] = answer
        /\ \A j \in Keys : j # k \/ status = "5xx" => store'[j] = store[j]
    <2>1. k \in Keys \cup {None}
      BY <1>1 DEF KeyTypeOK, Coroutine
    <2>2. CASE k # None /\ status # "5xx"
      BY <2>1, <2>2, <1>1, <1>2, <1>3 DEF Cacheable, KeyTypeOK, answer
    <2>3. CASE ~(k # None /\ status # "5xx")
      BY <2>1, <2>3, <1>1, <1>2, KeyAssumption DEF Cacheable, KeyTypeOK
    <2> QED
      BY <2>2, <2>3
  <1>6. /\ KeyTypeOK'
        /\ effects' \subseteq effects \cup {q} /\ effects \subseteq effects'
    BY <1>1, <1>2, <1>4, <1>5 DEF KeyTypeOK
  <1>7. CacheableOnly'
    <2>1. \A j \in Keys : store'[j] # None => store'[j].status # "5xx"
      BY <1>1, <1>3, <1>5, KeyAssumption DEF CacheableOnly
    <2>2. \A p \in Requests : req'[p].replayed =>
             req'[p].response # None /\ req'[p].response.status # "5xx"
      BY <1>1, <1>4 DEF CacheableOnly
    <2> QED
      BY <2>1, <2>2 DEF CacheableOnly
  <1>8. ASSUME RetryInv PROVE RetryInv'
    <2>1. OneInFlight /\ EffectsAnswered /\ NoTwoSuccesses /\ q \notin effects
      BY <1>1, <1>8 DEF RetryInv, EffectsAnswered
    <2>2. \A p \in Requests \ {q} : req[p].pc = "handling" /\ k # None => req[p].key # k
      BY <1>1, <2>1 DEF OneInFlight
    <2>3. k \in Keys => store[k] = None
      BY <1>1, <2>1 DEF OneInFlight, InFlight
    <2>4. OneInFlight'
      <3>1. ASSUME NEW j \in Keys, store'[j] # None PROVE InFlight(j)' = {}
        BY <3>1, <1>4, <1>5, <2>1, <2>2, KeyAssumption DEF OneInFlight, InFlight
      <3>2. \A p, r \in Requests :
               /\ req'[p].pc = "handling" /\ req'[r].pc = "handling"
               /\ req'[p].key = req'[r].key /\ req'[p].key # None
               => p = r
        BY <1>4, <2>1 DEF OneInFlight
      <3> QED
        BY <3>1, <3>2 DEF OneInFlight
    <2>5. EffectsAnswered'
      <3> SUFFICES ASSUME NEW p \in effects'
                   PROVE  /\ req'[p].pc = "answered"
                          /\ req'[p].key # None /\ req'[p].response.status = "2xx"
                                => store'[req'[p].key] # None
        BY DEF EffectsAnswered
      <3>1. CASE p = q
        BY <3>1, <1>3, <1>4, <1>5
      <3>2. CASE p # q
        <4>1. p \in effects /\ p \in Requests /\ req'[p] = req[p]
          BY <3>2, <1>1, <1>4, <1>6 DEF KeyTypeOK
        <4>2. req[p].key \in Keys \cup {None}
          BY <4>1, <1>1 DEF KeyTypeOK, Coroutine
        <4> QED
          BY <4>1, <4>2, <1>3, <1>5, <2>1 DEF EffectsAnswered
      <3> QED
        BY <3>1, <3>2
    <2>6. NoTwoSuccesses'
      <3>1. \A p \in effects : p \in Requests \ {q} /\ req'[p] = req[p]
        BY <1>1, <1>4, <2>1 DEF KeyTypeOK
      <3>2. ASSUME NEW p \in effects, req[p].key = k, k # None,
                   req[p].response.status = "2xx"
            PROVE  FALSE
        <4>1. store[k] # None /\ k \in Keys
          BY <3>2, <1>1, <2>1 DEF EffectsAnswered, KeyTypeOK, Coroutine
        <4> QED
          BY <4>1, <2>3
      <3> QED
        BY <3>1, <3>2, <1>4, <1>6, <2>1 DEF NoTwoSuccesses
    <2> QED
      BY <1>6, <1>7, <2>4, <2>5, <2>6 DEF RetryInv, CacheInv
  <1> QED
    BY <1>6, <1>7, <1>8 DEF CacheInv

\* Both invariants are inductive, the second when no client repeats a request
\* before its first answer.
LEMMA KeysNext ==
    /\ CacheInv /\ [Next]_vars => CacheInv'
    /\ ~Concurrent /\ RetryInv /\ [Next]_vars => RetryInv'
  <1>1. ASSUME CacheInv, [Next]_vars
        PROVE  CacheInv' /\ (~Concurrent /\ RetryInv => RetryInv')
    <2>1. CASE UNCHANGED vars
      BY <1>1, <2>1 DEF vars, RetryInv, CacheInv, KeyTypeOK, CacheableOnly, OneInFlight,
                        InFlight, EffectsAnswered, NoTwoSuccesses
    <2>2. CASE Next
      BY <1>1, <2>2, ForbidKeeps, ReceiveKeeps, ReturnKeeps DEF Next
    <2> QED
      BY <1>1, <2>1, <2>2
  <1> QED
    BY <1>1 DEF RetryInv

--------------------------------------------------------------------------------
(***************************************************************************)
(* The refinement of OncePerKey                                            *)
(***************************************************************************)

\* A request that moves on without an answer is no step of the promise.
LEMMA GivenUnchanged ==
    ASSUME NEW q \in Requests, req[q].pc # "answered", req'[q].pc # "answered",
           \A p \in Requests \ {q} : req'[p] = req[p]
    PROVE  Given' = Given
  BY DEF Given

\* An answer is given to one request, once.
LEMMA AnswerIsGiven ==
    ASSUME NEW q \in Requests, req[q].pc # "answered", req'[q].pc = "answered",
           \A p \in Requests \ {q} : req'[p] = req[p],
           NEW k, NEW response, req'[q].key = k, req'[q].response = response
    PROVE  Once!Answers(q, k, response)
  <1>1. Given[q] = None /\ Given'[q] = [key |-> k, response |-> response]
    BY DEF Given
  <1>2. \A p \in Requests \ {q} : Given'[p] = Given[p]
    BY DEF Given
  <1>3. Given = [p \in Requests |-> Given[p]] /\ Given' = [p \in Requests |-> Given'[p]]
    BY DEF Given
  <1> HIDE DEF Given
  <1> QED
    BY <1>1, <1>2, <1>3 DEF Once!Answers

\* A request is repeated from the cache, or starts unseen.
LEMMA ReceiveRepeats ==
    ASSUME KeyTypeOK, NEW q \in Requests, NEW k \in Keys \cup {None}, Receive(q, k)
    PROVE  Once!Next \/ UNCHANGED Once!vars
  <1>1. /\ store' = store /\ effects' = effects /\ req[q].pc = "unsent"
        /\ \A p \in Requests \ {q} : req'[p] = req[p]
    BY DEF Receive, KeyTypeOK
  <1>2. CASE IsCached(k)
    <2>1. req'[q] = [pc |-> "answered", key |-> k, response |-> store[k], replayed |-> TRUE]
      BY <1>2 DEF Receive, KeyTypeOK
    <2>2. Once!Answers(q, k, store[k])
      BY <1>1, <2>1, AnswerIsGiven
    <2>3. k \in Keys /\ store[k] # None
      BY <1>2 DEF IsCached
    <2>4. Once!Repeat(q, k)
      BY <1>1, <2>2, <2>3 DEF Once!Repeat
    <2> QED
      BY <2>3, <2>4 DEF Once!Next
  <1>3. CASE ~IsCached(k)
    <2>1. req'[q].pc = "handling"
      BY <1>3 DEF Receive, KeyTypeOK
    <2>2. Given' = Given
      BY <1>1, <2>1, GivenUnchanged
    <2> QED
      BY <1>1, <2>2 DEF Once!vars
  <1> QED
    BY <1>2, <1>3

\* The handler's answer settles its key, unless it is a server error: nobody
\* else has settled it since the cache was read.
LEMMA ReturnSettles ==
    ASSUME RetryInv, NEW q \in Requests, Return(q)
    PROVE  Once!Next
  <1> DEFINE k == req[q].key
  <1>1. KeyTypeOK /\ OneInFlight /\ req[q].pc = "handling" /\ k \in Keys \cup {None}
    BY DEF RetryInv, CacheInv, Return, KeyTypeOK, Coroutine
  <1>2. k \in Keys => store[k] = None
    BY <1>1 DEF OneInFlight, InFlight
  <1>3. PICK status \in {"2xx", "4xx", "5xx"}, effect \in BOOLEAN :
           /\ effects' = IF effect THEN effects \cup {q} ELSE effects
           /\ store' = IF k # None /\ Cacheable(status)
                       THEN [store EXCEPT ![k] = [by |-> q, status |-> status]]
                       ELSE store
           /\ Answers(q, [by |-> q, status |-> status], FALSE)
    BY DEF Return
  <1>4. Once!Handles(q)
    BY <1>3 DEF Once!Handles
  <1>5. /\ req'[q].pc = "answered" /\ req'[q].key = k
        /\ req'[q].response = [by |-> q, status |-> status]
        /\ \A p \in Requests \ {q} : req'[p] = req[p]
    BY <1>1, <1>3 DEF Answers, KeyTypeOK, Coroutine
  <1>6. Once!Answers(q, k, [by |-> q, status |-> status])
    BY <1>1, <1>5, AnswerIsGiven
  <1> HIDE DEF k
  <1>7. CASE k = None
    <2>1. store' = store
      BY <1>3, <1>7
    <2>2. Once!Handle(q)
      BY <1>4, <1>6, <1>7, <2>1 DEF Once!Handle
    <2> QED
      BY <2>2 DEF Once!Next
  <1>8. CASE k # None /\ status = "5xx"
    <2>1. store' = store
      BY <1>3, <1>8 DEF Cacheable
    <2>2. Once!Break(q, k)
      BY <1>1, <1>2, <1>4, <1>6, <1>8, <2>1 DEF Once!Break
    <2> QED
      BY <1>1, <1>8, <2>2 DEF Once!Next
  <1>9. CASE k # None /\ status # "5xx"
    <2>1. store' = [store EXCEPT ![k] = [by |-> q, status |-> status]]
      BY <1>3, <1>9 DEF Cacheable
    <2>2. status \in {"2xx", "4xx"}
      BY <1>9
    <2>3. Once!Settle(q, k)
      BY <1>1, <1>2, <1>4, <1>6, <1>9, <2>1, <2>2 DEF Once!Settle
    <2> QED
      BY <1>1, <1>9, <2>3 DEF Once!Next
  <1> QED
    BY <1>7, <1>8, <1>9

--------------------------------------------------------------------------------
(***************************************************************************)
(* Theorems                                                                *)
(***************************************************************************)

\* "if response.status_code < 500": a server error is never replayed, however
\* clients repeat their requests.
THEOREM ErrorSafety == Spec => []ErrorsAreNotReplayed
  <1>1. Init => CacheInv
    BY KeysStart DEF RetryInv
  <1>2. CacheInv /\ [Next]_vars => CacheInv'
    BY KeysNext
  <1>3. CacheInv => ErrorsAreNotReplayed
    BY DEF CacheInv, CacheableOnly, ErrorsAreNotReplayed
  <1> QED
    BY <1>1, <1>2, <1>3, PTL DEF Spec

\* One key has one successful effect if clients repeat a request only after
\* its answer; the run idempotent_race shows what happens if they do not.
THEOREM RetrySafety ==
    ASSUME ~Concurrent
    PROVE  Spec => []OneSuccessPerKey
  <1>1. RetryInv /\ [Next]_vars => RetryInv'
    BY KeysNext
  <1>2. RetryInv => OneSuccessPerKey
    <2> SUFFICES ASSUME RetryInv, NEW k \in Keys
                 PROVE  Cardinality(Successful(k)) <= 1
      BY DEF OneSuccessPerKey
    <2>1. \A p, q \in Successful(k) : p = q
      BY KeyAssumption DEF RetryInv, NoTwoSuccesses, Successful
    <2>2. CASE Successful(k) = {}
      <3>1. Cardinality(Successful(k)) = 0
        BY <2>2, FS_EmptySet
      <3> QED
        BY <3>1
    <2>3. CASE Successful(k) # {}
      <3>1. PICK q \in Successful(k) : TRUE
        BY <2>3
      <3>2. Successful(k) = {q}
        BY <2>1, <3>1
      <3>3. Cardinality(Successful(k)) = 1
        BY <3>2, FS_Singleton
      <3> QED
        BY <3>3
    <2> QED
      BY <2>2, <2>3
  <1> QED
    BY KeysStart, <1>1, <1>2, PTL DEF Spec

\* enforce_network_and_idempotency: the middleware around a handler makes each
\* keyed request one step of its key, if clients repeat a request only after
\* its answer.
THEOREM KeysSettleOnce ==
    ASSUME ~Concurrent
    PROVE  Spec => ImplementsOncePerKey
  <1>1. RetryInv /\ [Next]_vars => RetryInv'
    BY KeysNext
  <1>2. Init => Once!Init
    BY DEF Init, Once!Init, Given, NoRequest
  <1>3. RetryInv /\ [Next]_vars => [Once!Next]_(Once!vars)
    <2> SUFFICES ASSUME RetryInv, [Next]_vars PROVE Once!Next \/ UNCHANGED Once!vars
      OBVIOUS
    <2>1. CASE UNCHANGED vars
      BY <2>1 DEF vars, Once!vars, Given
    <2>2. ASSUME NEW q \in Requests, Forbid(q) PROVE UNCHANGED Once!vars
      <3>1. /\ req[q].pc = "unsent" /\ req'[q].pc = "forbidden"
            /\ store' = store /\ effects' = effects
            /\ \A p \in Requests \ {q} : req'[p] = req[p]
        BY <2>2 DEF Forbid, RetryInv, CacheInv, KeyTypeOK, Coroutine
      <3>2. Given' = Given
        BY <3>1, GivenUnchanged
      <3> QED
        BY <3>1, <3>2 DEF Once!vars
    <2>3. KeyTypeOK
      BY DEF RetryInv, CacheInv
    <2> QED
      BY <2>1, <2>2, <2>3, ReceiveRepeats, ReturnSettles DEF Next
  <1> QED
    BY KeysStart, <1>1, <1>2, <1>3, PTL DEF Spec, ImplementsOncePerKey, Once!Spec

================================================================================
