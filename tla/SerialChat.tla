------------------------------- MODULE SerialChat -------------------------------
(***************************************************************************)
(* What the chat endpoints promise: the turns of a session happen one at a *)
(* time.  A turn reads the session, is answered by the model and is stored *)
(* in a single step.  There are no handlers and no versions here;          *)
(* ChatSessions is shown to implement this specification.                  *)
(***************************************************************************)
EXTENDS Integers, Sequences

CONSTANTS
    SessionIds, Messages,
    History(_),     \* the turns of a session that the model is sent
    Refused         \* the errors a client may be told

VARIABLES
    log,            \* the turns of each session
    seen,           \* the history each stored turn was answered from
    told            \* what the client was told about each message

vars == <<log, seen, told>>

Init == /\ log = [s \in SessionIds |-> <<>>]
        /\ seen = [m \in Messages |-> <<>>]
        /\ told = [m \in Messages |-> "nothing"]

InLog(m) == \E s \in SessionIds : \E i \in 1 .. Len(log[s]) : log[s][i] = m

\* One whole turn.
TakeTurn(m, s) ==
    /\ told[m] = "nothing" /\ ~InLog(m)
    /\ log' = [log EXCEPT ![s] = Append(@, m)]
    /\ seen' = [seen EXCEPT ![m] = History(log[s])]
    /\ UNCHANGED told

\* A client is told once, and the truth, unless it is gone.
Answer(m) ==
    /\ told[m] = "nothing"
    /\ \E what \in {"lost"} \cup (IF InLog(m) THEN {"done"} ELSE Refused) :
          told' = [told EXCEPT ![m] = what]
    /\ UNCHANGED <<log, seen>>

Next == \E m \in Messages : Answer(m) \/ \E s \in SessionIds : TakeTurn(m, s)

Spec == Init /\ [][Next]_vars
================================================================================
