------------------------------- MODULE LocalAgent -------------------------------
(***************************************************************************)
(* The Windows client of application/local_agent.py, talking over HTTP     *)
(* (adapters/agent_http.py) to the agent API of AgentApi.  The client is   *)
(* sequential: it awaits one request of its own ("main"), and after Ctrl+C *)
(* one cancel request.  A second user works on the web pages ("web").      *)
(* Sending a request and the handler's first read are one step.  A reading *)
(* tool runs in a child process (LocalProcess) and submits of its output what *)
(* ToolOutput says.                                                        *)
(***************************************************************************)
EXTENDS AgentApi, LocalProcess, ToolOutput

CONSTANTS
    Run,                        \* the run the client creates
    ClientWorkspace,            \* --workspace-id of the client
    DEFAULT_MAX_AGENT_STEPS,    \* max_steps of a run that names none
    Interrupts,                 \* whether the user may press Ctrl+C
    WebUser                     \* whether somebody uses the web pages

ASSUME ClientAssumption ==
    /\ Run \in RunIds
    /\ ClientWorkspace \in Workspaces \ {""}
    /\ DEFAULT_MAX_AGENT_STEPS \in 1 .. MAX_AGENT_STEPS
    /\ Interrupts \in BOOLEAN /\ WebUser \in BOOLEAN
    /\ Requests = {"main", "cancel", "web"}

VARIABLES
    client,     \* the coroutine of run_goal or run_tool
    posted,     \* the create request is on its way
    reply,      \* body of the answer to "main": run status and proposed call
    executed    \* what the local executor did for each tool call

clientVars == <<client, posted, reply, executed, child>>
allVars == <<vars, clientVars>>

\* pc names the request the client awaits (not yet sent while its slot is
\* idle), a prompt ("clarify", "decide"), or the running executor.
ClientPC == {"start", "create", "plan", "tools", "next", "clarify", "decide",
             "approval", "reject", "execute", "submit", "cancel", "exit"}

Outcomes == {"none", "completed", "tool_result", "rejected", "step_limit",
             "error", "interrupted"}

NoReply == [status |-> "received", call |-> None]

LocalInit ==
    /\ Init
    /\ \E mode \in {"goal", "tool"} :
          client = [pc |-> "start", mode |-> mode, turn |-> 0, call |-> None,
                    ok |-> FALSE, outcome |-> "none"]
    /\ posted = FALSE
    /\ reply = NoReply
    /\ executed = [c \in CallIds |-> "no"]
    /\ child = NoChild

--------------------------------------------------------------------------------
(***************************************************************************)
(* Helpers                                                                 *)
(***************************************************************************)

Goto(pc) == client' = [client EXCEPT !.pc = pc]

\* The coroutine returns or raises; main() maps the outcome to an exit code.
Exit(outcome) == client' = [client EXCEPT !.pc = "exit", !.outcome = outcome]

\* raise_for_status: every answer but a success is an AgentClientError.
Proceeds(q) == req[q].response = "ok"

\* The answer to the request the client awaits as pc.
Gets(q, pc) == client.pc = pc /\ Respond(q) /\ reply' = NoReply
               /\ UNCHANGED <<posted, executed, child>>

Sends(pc) == client.pc = pc /\ UNCHANGED clientVars

\* Seeded defect: clarifications do not use up the loop.
NextTurnUncounted ==
    \/ client.pc = "clarify" /\ Goto("next")
    \/ /\ client.pc # "clarify"
       /\ client' = [client EXCEPT !.pc = "next", !.turn = @ + 1]

\* The end of one pass of the "for _ in range(run.max_steps)" loop.
NextTurn ==
    IF client.turn + 1 < DEFAULT_MAX_AGENT_STEPS
    THEN client' = [client EXCEPT !.pc = "next", !.turn = @ + 1]
    ELSE Exit("step_limit")

--------------------------------------------------------------------------------
(***************************************************************************)
(* Creating the run                                                        *)
(***************************************************************************)

SendCreate ==
    /\ client.pc = "start" /\ Goto("create") /\ posted' = TRUE
    /\ UNCHANGED <<vars, reply, executed, child>>

\* The backend handles the request, whether or not the client still waits.
CreateRun ==
    /\ posted /\ posted' = FALSE
    /\ CreateAgentRun(Run)
    /\ runs'[Run] = NewRun(DEFAULT_MAX_AGENT_STEPS, ClientWorkspace)
    /\ UNCHANGED <<client, reply, executed, child>>

GetRun ==
    /\ client.pc = "create" /\ runs[Run] # None
    /\ Goto(IF client.mode = "goal" THEN "next" ELSE "plan")
    /\ UNCHANGED <<vars, posted, reply, executed, child>>

--------------------------------------------------------------------------------
(***************************************************************************)
(* run_tool and the loop of run_goal                                       *)
(***************************************************************************)

SendPlan == Sends("plan") /\ BeginAgentPlanning("main", Run)

GetPlanned == /\ Gets("main", "plan")
              /\ IF Proceeds("main") THEN Goto("tools") ELSE Exit("error")

SendTools == Sends("tools") /\ ProposeAgentTool("main", Run)

SendNext == Sends("next") /\ PlanNextAgentStep("main", Run)

\* A proposal is handed to _execute_proposal: a denied one is an error, an
\* allowed one runs, a gated one is previewed (which may fail) and shown.
TakeProposal ==
    \/ /\ reply.call = None /\ Exit("error")
    \/ /\ reply.call # None /\ reply.status = "executing"
       /\ client' = [client EXCEPT !.pc = "execute", !.call = reply.call]
    \/ /\ reply.call # None /\ reply.status = "awaiting_approval"
       /\ \E pc \in {"decide", "reject"} :
             client' = [client EXCEPT !.pc = pc, !.call = reply.call, !.ok = FALSE]

GetProposal ==
    /\ Gets("main", "tools")
    /\ IF Proceeds("main") THEN TakeProposal ELSE Exit("error")

\* Seeded defect: a refused request for the next step is sent again.
GetStepRetrying ==
    /\ Gets("main", "next")
    /\ IF ~Proceeds("main") THEN Goto("next")
       ELSE \/ reply.status = "clarifying" /\ Goto("clarify")
            \/ reply.status = "completed" /\ Exit("completed")
            \/ reply.status \notin {"clarifying", "completed"} /\ TakeProposal

GetStep ==
    /\ Gets("main", "next")
    /\ IF ~Proceeds("main") THEN Exit("error")
       ELSE \/ reply.status = "clarifying" /\ Goto("clarify")
            \/ reply.status = "completed" /\ Exit("completed")
            \/ reply.status \notin {"clarifying", "completed"} /\ TakeProposal

\* clarification_handler; an empty answer raises.
Clarify ==
    /\ client.pc = "clarify"
    /\ NextTurn \/ Exit("error")
    /\ UNCHANGED <<vars, posted, reply, executed, child>>

--------------------------------------------------------------------------------
(***************************************************************************)
(* _resolve_write_approval and _execute_proposal                           *)
(***************************************************************************)

\* approval_handler: the user answers the [y/N] prompt.
Decide ==
    /\ client.pc = "decide"
    /\ \E approved \in BOOLEAN :
          client' = [client EXCEPT !.pc = "approval", !.ok = approved]
    /\ UNCHANGED <<vars, posted, reply, executed, child>>

SendApproval ==
    /\ client.pc \in {"approval", "reject"} /\ UNCHANGED clientVars
    /\ ResolveAgentToolApproval("main", Run, client.call,
                                IF client.ok THEN "approved" ELSE "rejected")

\* Seeded defect: the answer to the decision is not looked at.
GetApprovalUnchecked ==
    /\ Gets("main", "approval")
    /\ IF client.ok THEN Goto("execute") ELSE Exit("rejected")

GetApproval ==
    /\ Gets("main", "approval")
    /\ IF ~Proceeds("main") THEN Exit("error")
       ELSE IF client.ok THEN Goto("execute") ELSE Exit("rejected")

\* After a failed preview the proposal is rejected and the error re-raised.
GetRejection == Gets("main", "reject") /\ Exit("error")

Running(risk) == /\ client.pc = "execute"
                 /\ proposals[client.call].proposal.risk = risk
                 /\ UNCHANGED <<vars, posted, reply>>

Marks(state) == executed' = [executed EXCEPT ![client.call] = state]

\* execute returns a result, or raises a ToolExecutionError, which is
\* submitted as a failure.
Returns(ok) == client' = [client EXCEPT !.pc = "submit", !.ok = ok]

\* Seeded defect: a ToolExecutionError is submitted as a success.
ExecuteIgnoringError ==
    /\ Running("write")
    /\ \E ok \in BOOLEAN : Marks(IF ok THEN "succeeded" ELSE "failed") /\ Returns(TRUE)
    /\ UNCHANGED child

\* FilePatchExecutor.execute never awaits, see FilePatch.
Execute ==
    /\ Running("write")
    /\ \E ok \in BOOLEAN : Marks(IF ok THEN "succeeded" ELSE "failed") /\ Returns(ok)
    /\ UNCHANGED child

\* The checks of a reading tool, then its child process; either may fail.
StartTool ==
    /\ Running("read")
    /\ child = NoChild
    /\ \/ StartChild /\ Marks("started") /\ UNCHANGED client
       \/ Marks("failed") /\ Returns(FALSE) /\ UNCHANGED child

ToolEnds(state) ==
    /\ Running("read")
    /\ ChildEnds(state) /\ Marks(state)
    /\ UNCHANGED client

\* _process_tool_result
CollectTool ==
    /\ Running("read")
    /\ Communicated /\ Returns(child.state = "succeeded")
    /\ UNCHANGED executed

\* What the clauses of run do to the child, and to a tool that still runs.
KillTool(handler) ==
    /\ Kill(handler)
    /\ IF child.state = "running" THEN Marks("failed") ELSE UNCHANGED executed

\* The timeout of wait_for; a kill that raises is not a ProcessRunnerError and
\* ends the command without a result.
ToolTimeout ==
    /\ Running("read")
    /\ \/ KillTool("timeout") /\ UNCHANGED client
       \/ KillRaises /\ Exit("error") /\ UNCHANGED executed

ReapTimedOut ==
    /\ Running("read")
    /\ Reaped("timeout") /\ Returns(FALSE)
    /\ UNCHANGED executed

SendResult ==
    Sends("submit") /\ SubmitAgentToolResult("main", Run, client.call, client.ok)

\* Seeded defect: the answer to the result is not looked at.
GetResultUnchecked ==
    /\ Gets("main", "submit")
    /\ IF client.mode = "goal" /\ client.ok THEN NextTurn ELSE Exit("tool_result")

GetResult ==
    /\ Gets("main", "submit")
    /\ IF ~Proceeds("main") THEN Exit("error")
       ELSE IF client.mode = "goal" /\ client.ok THEN NextTurn
       ELSE Exit("tool_result")

--------------------------------------------------------------------------------
(***************************************************************************)
(* Ctrl+C, timeouts and the web pages                                      *)
(***************************************************************************)

\* An await of a request, or a prompt.
Interruptible ==
    \/ client.pc \in {"plan", "tools", "next", "approval", "reject", "submit"}
       /\ req["main"].pc # "idle"
    \/ client.pc \in {"clarify", "decide"}

\* CancelledError and KeyboardInterrupt cancel the remote run, except that
\* create_run is awaited outside the try block.
Interrupt ==
    /\ Interrupts
    /\ \/ Interruptible /\ Goto("cancel")
       \/ client.pc = "create" /\ Exit("interrupted")
    /\ UNCHANGED <<vars, posted, reply, executed, child>>

\* Seeded defect: the cancelled task does not kill its child.
InterruptToolOnly ==
    /\ Interrupts /\ Running("read")
    /\ Awaited /\ Goto("cancel") /\ UNCHANGED <<executed, child>>

\* The await of a child is cancelled: the child is killed first.  An error of
\* kill takes the place of the CancelledError, and the run is not cancelled.
InterruptTool ==
    /\ Interrupts /\ Running("read")
    /\ \/ KillTool("cancel") /\ UNCHANGED client
       \/ KillRaises /\ Exit("error") /\ UNCHANGED executed
       \/ Abandoned /\ Goto("cancel") /\ UNCHANGED executed

ReapCancelled ==
    /\ Running("read")
    /\ Reaped("cancel") /\ Goto("cancel")
    /\ UNCHANGED executed

SendCancel == Sends("cancel") /\ CancelAgentRun("cancel", Run)

\* _cancel_remote_run swallows an AgentClientError.
GetCancelled == Gets("cancel", "cancel") /\ Exit("interrupted")

\* RequestError: the connection fails or times out while the backend may
\* still be working on the request.
Timeout ==
    /\ Faults
    /\ \/ client.pc = "create" /\ Exit("error")
       \/ /\ client.pc \in {"plan", "tools", "next", "approval", "reject", "submit"}
          /\ req["main"].pc # "idle" /\ Exit("error")
       \/ client.pc = "cancel" /\ req["cancel"].pc # "idle" /\ Exit("interrupted")
    /\ UNCHANGED <<vars, posted, reply, executed, child>>

\* The cancel button of web/runs.js and the decisions of web/approvals.js.
UseWebPages ==
    /\ WebUser
    /\ \/ CancelAgentRun("web", Run)
       \/ \E c \in Open(Run), d \in {"approved", "rejected"} :
             ResolveAgentToolApproval("web", Run, c, d)
    /\ UNCHANGED clientVars

--------------------------------------------------------------------------------

Backend(q) ==
    /\ HandlerStep(q)
    /\ reply' = IF q = "main"
                THEN [status |-> req[q].next.status, call |-> req[q].call] ELSE reply
    /\ UNCHANGED <<client, posted, executed, child>>

BackendFails(q) == Abort(q) /\ UNCHANGED clientVars

\* The slots whose answer the client awaits.
AwaitedSlots == IF client.pc = "exit" THEN {}
                ELSE IF client.pc = "cancel" THEN {"cancel"} ELSE {"main"}

\* Nobody listens to the answer, or the web page shows it.
Discard(q) == q \notin AwaitedSlots /\ Respond(q) /\ UNCHANGED clientVars

ClientStep ==
    \/ SendCreate \/ GetRun \/ SendPlan \/ GetPlanned \/ SendTools \/ GetProposal
    \/ SendNext \/ GetStep \/ Clarify \/ Decide \/ SendApproval \/ GetApproval
    \/ GetRejection \/ Execute \/ StartTool \/ CollectTool \/ ToolTimeout \/ ReapTimedOut
    \/ ReapCancelled \/ SendResult \/ GetResult \/ SendCancel \/ GetCancelled

LocalNext ==
    \/ ClientStep \/ CreateRun \/ Interrupt \/ InterruptTool \/ Timeout \/ UseWebPages
    \/ \E state \in Ended : ToolEnds(state)
    \/ \E q \in Requests : Backend(q) \/ BackendFails(q) \/ Discard(q)

\* The client and the backend keep running, the planner answers or times out
\* (the Ollama adapter sets a timeout), and a user at a prompt answers it.  A
\* child process need not end by itself: the timer of wait_for is the client's.
\* Nothing is assumed about Ctrl+C, HTTP timeouts and the web pages.
LocalSpec ==
    /\ LocalInit /\ [][LocalNext]_allVars
    /\ WF_allVars(ClientStep) /\ WF_allVars(CreateRun)
    /\ \A q \in Requests : WF_allVars(Backend(q))

--------------------------------------------------------------------------------
(***************************************************************************)
(* Properties                                                              *)
(***************************************************************************)

\* The client's variables hold values of their types.
LocalTypeOK ==
    /\ client \in [pc : ClientPC, mode : {"goal", "tool"},
                   turn : 0 .. DEFAULT_MAX_AGENT_STEPS - 1,
                   call : CallIds \cup {None}, ok : BOOLEAN, outcome : Outcomes]
    /\ posted \in BOOLEAN
    /\ reply \in [status : AgentStatus, call : CallIds \cup {None}]
    /\ executed \in [CallIds -> {"no", "started", "succeeded", "failed"}]
    /\ child \in Child

\* No tool runs on the workspace unless the backend stored its authorisation:
\* whatever the web user decides meanwhile and whichever answers are lost, a
\* write that ran was approved (docs/agent-architecture.md: "állapotváltoztató
\* művelet jóváhagyás nélkül nem fut le").
ExecutionIsAuthorised ==
    \A c \in CallIds :
       executed[c] # "no" => proposals[c] # None /\ Authorised(proposals[c].proposal)

\* The audit never reports an execution that did not happen, nor its failure
\* as a success, nor a success as a failure, unless the timeout of a reading
\* tool fired when its child had ended and its output was still being read.
ResultsWereExecuted ==
    \A c \in CallIds : results[c] # "none" =>
        \/ executed[c] = results[c]
        \/ /\ executed[c] = "succeeded" /\ results[c] = "failed"
           /\ proposals[c].proposal.risk = "read"

\* docs/agent-architecture.md:318: a running child process stops when the
\* command is interrupted.  None outlives its tool, whichever of Ctrl+C, the
\* timeout and its own end comes first, nor is one killed and left unawaited
\* while its result is submitted.
NoChildOutlivesItsTool ==
    /\ client.pc # "execute" => child = NoChild
    /\ \A c \in CallIds : executed[c] = "started" =>
          client.pc = "execute" /\ client.call = c /\ child.state = "running"

\* What a reading tool submits of its process is honest about what was left
\* out, whether the process output was cut within a line, its error output was
\* cut, or results beyond max_results were left out
\* (GitStatusExecutor.execute, FileSearchExecutor.execute).
OutputIsHonest ==
    LocalInit => \A lines \in Outputs, noisy \in BOOLEAN, max_results \in ResultLimits :
                    ReadsHonestly(lines, noisy, max_results)

\* What the client tells its user is the stored outcome of the run: a goal
\* reported as completed is completed, a rejected change is cancelled, a
\* failed tool has failed its run.
OutcomeIsTrue ==
    /\ client.outcome = "completed" => runs[Run].status = "completed"
    /\ client.outcome = "rejected" => runs[Run].status = "cancelled"
    /\ client.outcome = "tool_result" /\ ~client.ok => runs[Run].status = "failed"

\* run_goal and run_tool return: no clarification dialogue, conflict or
\* rejected request keeps the client in its loop.
ClientTerminates == <>(client.pc = "exit")

\* The places of the client in one pass of its loop, the last one first.
Stage == [exit |-> 0, cancel |-> 1, submit |-> 2, execute |-> 3, approval |-> 4,
          reject |-> 5, decide |-> 5, clarify |-> 6, next |-> 7, tools |-> 8,
          plan |-> 9, create |-> 10, start |-> 11]

\* What is left of the request h the client awaits, if it has been sent.
AnswerLeft(h) == IF h.pc = "idle" THEN 6 ELSE StepsLeft(h)

\* What is left of the reading tool the client runs.
ChildLeft == IF child.handler # "none" THEN 1
             ELSE IF child.state = "none" THEN 4
             ELSE IF child.state = "running" THEN 3 ELSE 2

\* What is left of the await at the client's place.
AwaitLeft ==
    IF client.pc = "create" THEN IF posted THEN 1 ELSE 0
    ELSE IF client.pc = "execute" THEN ChildLeft
    ELSE IF client.pc = "cancel" THEN AnswerLeft(req["cancel"])
    ELSE IF client.pc \in {"plan", "tools", "next", "approval", "reject", "submit"}
    THEN AnswerLeft(req["main"]) ELSE 0

\* A bound on the steps left until the client exits: passes of its loop, places
\* of one pass, steps of one await.
ClientRank == (DEFAULT_MAX_AGENT_STEPS - client.turn) * 84
              + Stage[client.pc] * 7 + AwaitLeft

\* Something happens to the client, its child or a request it awaits.
ClientMoves == \/ client' # client \/ child' # child
               \/ client.pc = "create" /\ posted' # posted
               \/ \E q \in AwaitedSlots : req'[q] # req[q]

\* Whatever happens to the client, its child or a request it awaits, Ctrl+C,
\* timeouts, a refused or lost request and a killed child included, brings it
\* nearer to its exit: nothing is repeated without using up a pass of the loop.
ClientProgresses == [][ClientMoves => ClientRank' < ClientRank]_allVars

\* docs/agent-architecture.md: cancelling forbids starting a new tool.  The
\* client does not look at the run again between the answer that authorised
\* the call and its execution.
CancelStopsNewTools ==
    [][\A c \in CallIds : executed[c] = "no" /\ executed'[c] # "no"
          => runs[Run].status # "cancelled"]_allVars

================================================================================
