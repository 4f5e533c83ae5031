------------------------------ MODULE LocalProcess ------------------------------
(***************************************************************************)
(* AsyncLocalProcessRunner of adapters/local_process.py: the child process *)
(* of one reading tool, its timeout and the cancellation of the task that  *)
(* waits for it.  What the operating system and asyncio do with the child  *)
(* is modelled from how run uses them.                                     *)
(***************************************************************************)

VARIABLE child      \* the child process, and the handler that has killed it

(***************************************************************************)
(* A child that has ended by itself is "succeeded" if its return code is   *)
(* one the tool accepts; it stays until its pipes are read.  "handler" is  *)
(* the except clause of run that awaits the killed child.                  *)
(***************************************************************************)
ChildState == {"none", "running", "succeeded", "failed", "killed"}

Ended == {"succeeded", "failed"}

Child == [state : ChildState, handler : {"none", "timeout", "cancel"}]

NoChild == [state |-> "none", handler |-> "none"]

\* process.communicate() is awaited with the timeout still running.
Awaited == child.state # "none" /\ child.handler = "none"

\* create_subprocess_exec
StartChild == /\ child = NoChild
              /\ child' = [NoChild EXCEPT !.state = "running"]

\* The child exits (external).
ChildEnds(state) == /\ child.state = "running"
                    /\ child' = [child EXCEPT !.state = state]

\* communicate returns: the result holds the return code.
Communicated == Awaited /\ child.state \in Ended /\ child' = NoChild

\* process.kill() in an except clause, with the child running, or ended while
\* one of its pipes is still open.
Kill(handler) ==
    /\ Awaited
    /\ child' = [state   |-> IF child.state = "running" THEN "killed" ELSE child.state,
                 handler |-> handler]

\* The child has just ended and asyncio has already closed its transport:
\* kill raises ProcessLookupError instead, out of the except clause.
KillRaises == Awaited /\ child.state \in Ended /\ child' = NoChild

\* The second communicate of an except clause returns.
Reaped(handler) == child.handler = handler /\ child' = NoChild

\* The task is cancelled in the second communicate of the timeout.
Abandoned == child.handler = "timeout" /\ child' = NoChild

================================================================================
