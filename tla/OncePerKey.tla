------------------------------- MODULE OncePerKey -------------------------------
(***************************************************************************)
(* What an idempotency key promises: handling a request, answering it and  *)
(* remembering the answer are one step, and a key is handled again only    *)
(* after a server error.  There are no coroutines and no cache here;       *)
(* Idempotency is shown to implement this specification.                   *)
(***************************************************************************)
EXTENDS Integers, FiniteSets

CONSTANTS Keys, Requests, None

VARIABLES
    settled,    \* the definitive answer of each key
    answer,     \* the answer of each request, and its key
    effects     \* the requests that changed the run tables

vars == <<settled, answer, effects>>

Init == /\ settled = [k \in Keys |-> None]
        /\ answer = [q \in Requests |-> None]
        /\ effects = {}

Answers(q, k, response) ==
    /\ answer[q] = None
    /\ answer' = [answer EXCEPT ![q] = [key |-> k, response |-> response]]

\* The handler may change the tables, whatever it answers.
Handles(q) == effects' = effects \/ effects' = effects \cup {q}

\* The first answer of a key that is not a server error is its answer.
Settle(q, k) ==
    /\ settled[k] = None
    /\ \E status \in {"2xx", "4xx"} :
          /\ Answers(q, k, [by |-> q, status |-> status])
          /\ settled' = [settled EXCEPT ![k] = [by |-> q, status |-> status]]
    /\ Handles(q)

\* A server error settles nothing.
Break(q, k) ==
    /\ settled[k] = None
    /\ Answers(q, k, [by |-> q, status |-> "5xx"]) /\ Handles(q)
    /\ UNCHANGED settled

\* Every later request with the key is told the same and changes nothing.
Repeat(q, k) ==
    /\ settled[k] # None
    /\ Answers(q, k, settled[k])
    /\ UNCHANGED <<settled, effects>>

\* A request without a key.
Handle(q) ==
    /\ \E status \in {"2xx", "4xx", "5xx"} : Answers(q, None, [by |-> q, status |-> status])
    /\ Handles(q)
    /\ UNCHANGED settled

Next == \E q \in Requests :
    Handle(q) \/ \E k \in Keys : Settle(q, k) \/ Break(q, k) \/ Repeat(q, k)

Spec == Init /\ [][Next]_vars
================================================================================
