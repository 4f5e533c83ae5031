-------------------------------- MODULE AgentApi --------------------------------
(***************************************************************************)
(* The agent endpoints of api/agent_routes.py over the PostgreSQL run      *)
(* store.  A handler is one action per stretch of code between two awaits  *)
(* that touch shared state: it reads the run (and proposal), computes the  *)
(* next values with AgentService, possibly waits for the planner, and then *)
(* commits one transaction that compares the stored version.  Any number   *)
(* of handlers interleave, and a handler may stop between two steps (lost  *)
(* connection, database error, restarted backend).                         *)
(***************************************************************************)
EXTENDS AgentService, FiniteSets

CONSTANTS
    RunIds,         \* UUIDs of runs
    CallIds,        \* UUIDs of tool calls
    Requests,       \* concurrent HTTP requests
    CallRequests,   \* tool calls a client or the planner may ask for
    MaxVersion,     \* bound: no request starts on a run with this version
    Faults,         \* whether a handler may stop between two steps
    None

ASSUME CallRequestsAssumption == CallRequests \subseteq ToolCall
ASSUME MaxVersionAssumption == MaxVersion \in Nat
ASSUME FaultsAssumption == Faults \in BOOLEAN

\* A row of agent_tool_proposals; closed stands for closed_at not being null.
ProposalRow == [run : RunIds, closed : BOOLEAN, proposal : Proposal]

ASSUME NoneAssumption ==
    /\ None \notin AgentRun
    /\ None \notin ProposalRow
    /\ None \notin Proposal
    /\ None \notin RunIds
    /\ None \notin CallIds

VARIABLES
    runs,           \* table agent_runs
    proposals,      \* table agent_tool_proposals
    results,        \* table agent_tool_results: "none", "succeeded", "failed"
    issued,         \* tool call UUIDs generated so far
    req,            \* the state of each request's handler
    mail            \* notifications handed to the mail or n8n adapter

vars == <<runs, proposals, results, issued, req, mail>>

Operation == {"none", "cancel", "plan", "next", "tools", "approval", "active",
              "result"}

\* pc names the await a handler is suspended in: a store method, the planner
\* or the notification; "done" is a handler whose response is on its way.
Writing == {"update", "cancel_run", "update_proposal", "complete_proposal"}

\* The first model call of the planner, and the one that repairs its answer.
Planning == {"planner", "repair"}

Pending == Writing \cup Planning \cup {"notify"}

\* The answers, by status: 200, 404, 409, any other status the handler declares
\* (403, 422, 502, 503), and 500.
Response == {"ok", "not_found", "conflict", "refused", "error"}

Request == [pc       : Pending \cup {"idle", "done"},
            op       : Operation,
            run      : RunIds \cup {None},
            snap     : AgentRun \cup {None},    \* the run as it was read
            next     : AgentRun \cup {None},    \* the run to be stored
            call     : CallIds \cup {None},
            proposal : Proposal \cup {None},    \* the proposal to be stored
            response : Response \cup {"none"}]

Idle == [pc |-> "idle", op |-> "none", run |-> None, snap |-> None,
         next |-> None, call |-> None, proposal |-> None, response |-> "none"]

Init == /\ runs = [r \in RunIds |-> None]
        /\ proposals = [c \in CallIds |-> None]
        /\ results = [c \in CallIds |-> "none"]
        /\ issued = {}
        /\ req = [q \in Requests |-> Idle]
        /\ mail = {}

--------------------------------------------------------------------------------
(***************************************************************************)
(* Helpers                                                                 *)
(***************************************************************************)

tables == <<runs, proposals, results>>

\* Rows selected by "run_id = r and closed_at is null".
Open(r) == {c \in CallIds : /\ proposals[c] # None
                            /\ proposals[c].run = r
                            /\ ~proposals[c].closed}

\* A handler that has read the run and waits for pc.
Suspended(pc, op, r, snap, next, c, p) ==
    [pc |-> pc, op |-> op, run |-> r, snap |-> snap, next |-> next,
     call |-> c, proposal |-> p, response |-> "none"]

\* A handler that returns or raises; only its answer is still of interest.
Answer(op, r, response) ==
    [pc |-> "done", op |-> op, run |-> r, snap |-> None, next |-> None,
     call |-> None, proposal |-> None, response |-> response]

Answered(q, response) == Answer(req[q].op, req[q].run, response)

Await(q, handler) == req' = [req EXCEPT ![q] = handler]

\* A request can be received for run r; a missing run is a 404, which
\* changes nothing.
Receives(q, r) == /\ req[q].pc = "idle"
                  /\ runs[r] # None
                  /\ runs[r].version < MaxVersion

--------------------------------------------------------------------------------
(***************************************************************************)
(* The handlers up to their first store write                              *)
(***************************************************************************)

\* create_agent_run: the only store call is add, on a fresh UUID.
CreateAgentRun(r) ==
    /\ runs[r] = None
    /\ \E n \in 1 .. MAX_AGENT_STEPS, w \in Workspaces :
          runs' = [runs EXCEPT ![r] = NewRun(n, w)]
    /\ UNCHANGED <<proposals, results, issued, req, mail>>

\* cancel_agent_run
CancelAgentRun(q, r) ==
    /\ Receives(q, r)
    /\ Await(q, IF CanCancelRun(runs[r])
                THEN Suspended("cancel_run", "cancel", r, runs[r],
                               TransitionTo(runs[r], "cancelled"), None, None)
                ELSE Answer("cancel", r, "conflict"))
    /\ UNCHANGED <<tables, issued, mail>>

\* begin_agent_planning
BeginAgentPlanning(q, r) ==
    /\ Receives(q, r)
    /\ Await(q, IF CanBeginPlanning(runs[r])
                THEN Suspended("update", "plan", r, runs[r],
                               TransitionTo(runs[r], "planning"), None, None)
                ELSE Answer("plan", r, "conflict"))
    /\ UNCHANGED <<tables, issued, mail>>

\* plan_next_agent_step up to the planner call: a run that already plans is
\* not written back.
PlanNextAgentStep(q, r) ==
    /\ Receives(q, r)
    /\ Await(q, IF CanPrepareRun(runs[r])
                THEN Suspended(IF runs[r].status = "planning"
                               THEN "planner" ELSE "update",
                               "next", r, runs[r], PrepareRun(runs[r]), None, None)
                ELSE Answer("next", r, "conflict"))
    /\ UNCHANGED <<tables, issued, mail>>

\* propose_agent_tool: a denied call answers 200 without a store write; the
\* step limit is an AgentDomainError and answers 422, any other status of the
\* run an AgentServiceError and answers 409.
ProposeAgentTool(q, r) ==
    /\ Receives(q, r)
    /\ UNCHANGED <<tables, mail>>
    /\ \E call \in CallRequests :
          \/ /\ ~CanProposeTool(runs[r], call)
             /\ Await(q, Answer("tools", r, IF runs[r].status = "planning"
                                            THEN "refused" ELSE "conflict"))
             /\ UNCHANGED issued
          \/ /\ CanProposeTool(runs[r], call)
             /\ Evaluate(call, runs[r].workspace) = "deny"
             /\ Await(q, Answer("tools", r, "ok"))
             /\ UNCHANGED issued
          \/ /\ CanProposeTool(runs[r], call)
             /\ Evaluate(call, runs[r].workspace) # "deny"
             /\ \E c \in CallIds \ issued :
                   /\ issued' = issued \cup {c}
                   /\ Await(q, Suspended("update_proposal", "tools", r, runs[r],
                                         ProposedRun(runs[r], call), c,
                                         NewProposal(runs[r], call)))

\* resolve_agent_tool_approval: the step limit is not among the exceptions
\* the handler catches, so it ends in an internal error.
ResolveAgentToolApproval(q, r, c, decision) ==
    /\ Receives(q, r)
    /\ LET p == proposals[c].proposal
       IN  Await(q, IF Open(r) = {}
                    THEN Answer("approval", r, "not_found")
                    ELSE IF c \notin Open(r) \/ ~HasPendingApproval(runs[r], p)
                    THEN Answer("approval", r, "conflict")
                    ELSE IF ~CanResolveApproval(runs[r], p, decision)
                    THEN Answer("approval", r, "error")
                    ELSE Suspended("update_proposal", "approval", r, runs[r],
                                   TransitionTo(runs[r], ResolvedStatus(decision)),
                                   c, [p EXCEPT !.approval = decision]))
    /\ UNCHANGED <<tables, issued, mail>>

\* submit_agent_tool_result
SubmitAgentToolResult(q, r, c, succeeded) ==
    /\ Receives(q, r)
    /\ Await(q, IF c \in Open(r) /\ CanRecordExecutionResult(runs[r])
                THEN Suspended("complete_proposal", "result", r, runs[r],
                               TransitionTo(runs[r], ResultStatus(succeeded)),
                               c, None)
                ELSE Answer("result", r, IF Open(r) = {} THEN "not_found"
                                         ELSE "conflict"))
    /\ UNCHANGED <<tables, issued, mail>>

\* get_active_agent_tool
GetActiveAgentTool(q, r) ==
    /\ Receives(q, r)
    /\ Await(q, Answer("active", r, IF Open(r) = {} THEN "not_found" ELSE "ok"))
    /\ UNCHANGED <<tables, issued, mail>>

--------------------------------------------------------------------------------
(***************************************************************************)
(* The planner call of plan_next_agent_step                                *)
(***************************************************************************)

\* Whether plan_next has a step left to plan for.
RemainingSteps(run) == run.step_count < run.max_steps

\* _fail_planning_run, and the fail_run of the denied proposal p.
FailPlanningRun(q, p) ==
    /\ Await(q, Suspended("update", "next", req[q].run, req[q].next,
                          TransitionTo(req[q].next, "failed"), None, p))
    /\ UNCHANGED <<tables, issued, mail>>

\* No step is left, the request is too long for the model, the model cannot
\* be reached, or its second answer is invalid too.
PlannerFails(q) == req[q].pc \in Planning /\ FailPlanningRun(q, None)

\* A first answer that is no decision is sent back once for repair.
PlannerRepairs(q) ==
    /\ req[q].pc = "planner"
    /\ RemainingSteps(req[q].next)
    /\ Await(q, [req[q] EXCEPT !.pc = "repair"])
    /\ UNCHANGED <<tables, issued, mail>>

\* The context violates PlannerRequest (a blank clarification, an observation
\* that is too long once it is wrapped), or the answer to be repaired is
\* blank, which ChatMessage refuses to quote.  Neither error is caught: the
\* response is an internal error and the run is left in planning.
PlannerRaises(q) ==
    /\ req[q].pc = "planner"
    /\ RemainingSteps(req[q].next)
    /\ Await(q, Answered(q, "error"))
    /\ UNCHANGED <<tables, issued, mail>>

\* ClarifyDecision and CompleteDecision.
PlannerDecides(q, status) ==
    /\ req[q].pc \in Planning
    /\ RemainingSteps(req[q].next)
    /\ Await(q, Suspended("update", "next", req[q].run, req[q].next,
                          TransitionTo(req[q].next, status), None, None))
    /\ UNCHANGED <<tables, issued, mail>>

\* A tool decision names a listed tool, and its risk is the registry's; any
\* other answer is an invalid one.
ParsedTool(call) == /\ call.name \in Tools
                    /\ call.risk = RegisteredRisk[call.name]

\* validate_tool_arguments: the registered schemas know no workspace
\* argument, type path as a string and require it for writing tools.
ValidArguments(call) ==
    /\ call.workspace = ""
    /\ call.path # "not_string"
    /\ call.risk = "write" => call.path # "absent"

Denied(q, call) == Evaluate(call, req[q].next.workspace) = "deny"

\* A tool decision with invalid arguments, or one that the policy denies.
DecisionFails(q) ==
    /\ req[q].pc \in Planning
    /\ RemainingSteps(req[q].next)
    /\ \E call \in CallRequests :
          /\ ParsedTool(call)
          /\ \/ ~ValidArguments(call) /\ FailPlanningRun(q, None)
             \/ /\ ValidArguments(call) /\ Denied(q, call)
                /\ FailPlanningRun(q, NewProposal(req[q].next, call))

\* ToolDecision
PlannerProposesTool(q) ==
    /\ req[q].pc \in Planning
    /\ RemainingSteps(req[q].next)
    /\ UNCHANGED <<tables, mail>>
    /\ \E call \in CallRequests, c \in CallIds \ issued :
          /\ ParsedTool(call) /\ ValidArguments(call)
          /\ CanProposeTool(req[q].next, call)
          /\ Evaluate(call, req[q].next.workspace) # "deny"
          /\ issued' = issued \cup {c}
          /\ Await(q, Suspended("update_proposal", "next", req[q].run,
                                req[q].next, ProposedRun(req[q].next, call), c,
                                NewProposal(req[q].next, call)))

--------------------------------------------------------------------------------
(***************************************************************************)
(* The transactions of PostgresAgentRunStore                               *)
(***************************************************************************)

\* Seeded defect: the stored version is locked but not compared.
VersionUnchecked(q) ==
    /\ runs[req[q].run] # None
    /\ req[q].next.version = req[q].snap.version + 1

\* _lock_and_validate_run
VersionMatches(q) ==
    LET stored == runs[req[q].run]
    IN  /\ stored # None
        /\ stored.version = req[q].snap.version
        /\ req[q].next.version = req[q].snap.version + 1

\* _update_run
StoreRun(q) == runs' = [runs EXCEPT ![req[q].run] = req[q].next]

\* Seeded defect: a failed tool result is not reported.
ContinueSilently(q) ==
    LET status == req[q].next.status
    IN  Await(q, IF req[q].op = "next" /\ status = "planning"
                 THEN [req[q] EXCEPT !.pc = "planner"]
                 ELSE IF \/ req[q].op = "next" /\ status \in {"completed", "failed"}
                         \/ req[q].op = "tools" /\ status = "awaiting_approval"
                 THEN [req[q] EXCEPT !.pc = "notify"]
                 ELSE Answered(q, "ok"))

\* The statements a handler runs after its transaction: the planner call, a
\* notification, or the response.
Continue(q) ==
    LET status == req[q].next.status
    IN  Await(q, IF req[q].op = "next" /\ status = "planning"
                 THEN [req[q] EXCEPT !.pc = "planner"]
                 ELSE IF \/ req[q].op = "next" /\ status \in {"completed", "failed"}
                         \/ req[q].op = "tools" /\ status = "awaiting_approval"
                         \/ req[q].op = "result" /\ status = "failed"
                 THEN [req[q] EXCEPT !.pc = "notify"]
                 ELSE Answered(q, "ok"))

\* plan_next_agent_step reports a run it has failed as an error.
Outcome(q) == IF req[q].op = "next" /\ req[q].next.status = "failed"
              THEN "refused" ELSE "ok"

\* Seeded defect: the conflict is swallowed and the handler goes on.
ConflictSwallowed(q, response) == Continue(q) /\ UNCHANGED <<tables, issued, mail>>

\* The transaction raises, rolls back, and the handler answers the error.
Conflict(q, response) == /\ Await(q, Answered(q, response))
                         /\ UNCHANGED <<tables, issued, mail>>

\* The answer to an AgentRunConflictError.  _fail_planning_run ignores it, so
\* that only a denied call, which fails its run in the handler, tells of it.
ConflictAnswer(q) ==
    IF req[q].op = "next" /\ req[q].next.status = "failed" /\ req[q].proposal = None
    THEN "refused" ELSE "conflict"

Update(q) ==
    /\ req[q].pc = "update" /\ VersionMatches(q)
    /\ StoreRun(q)
    /\ Continue(q)
    /\ UNCHANGED <<proposals, results, issued, mail>>

\* Seeded defect: the proposal stays open.
ProposalsKept(r) == proposals

\* The update of cancel_run that closes the open proposals of run r.
WithoutOpen(r) ==
    [c \in CallIds |-> IF c \in Open(r) THEN [proposals[c] EXCEPT !.closed = TRUE]
                                        ELSE proposals[c]]

CancelRun(q) ==
    /\ req[q].pc = "cancel_run" /\ VersionMatches(q)
    /\ StoreRun(q)
    /\ proposals' = WithoutOpen(req[q].run)
    /\ Continue(q)
    /\ UNCHANGED <<results, issued, mail>>

\* _upsert_proposal under ux_agent_tool_proposals_active_run; the row is
\* closed together with a terminal run.
CanUpsert(q) ==
    LET c == req[q].call
    IN  /\ proposals[c] # None => proposals[c].run = req[q].run
        /\ req[q].next.status \in Terminal \/ Open(req[q].run) \subseteq {c}

UpdateProposal(q) ==
    /\ req[q].pc = "update_proposal" /\ VersionMatches(q) /\ CanUpsert(q)
    /\ StoreRun(q)
    /\ proposals' = [proposals EXCEPT ![req[q].call] =
                        [run |-> req[q].run,
                         closed |-> req[q].next.status \in Terminal,
                         proposal |-> req[q].proposal]]
    /\ Continue(q)
    /\ UNCHANGED <<results, issued, mail>>

\* complete_proposal: the call must still be the open one and have no result.
CanComplete(q) == /\ req[q].call \in Open(req[q].run)
                  /\ results[req[q].call] = "none"

CompleteProposal(q) ==
    /\ req[q].pc = "complete_proposal" /\ VersionMatches(q) /\ CanComplete(q)
    /\ StoreRun(q)
    /\ results' = [results EXCEPT ![req[q].call] =
                      IF req[q].next.status = "observing"
                      THEN "succeeded" ELSE "failed"]
    /\ proposals' = [proposals EXCEPT ![req[q].call].closed = TRUE]
    /\ Continue(q)
    /\ UNCHANGED <<issued, mail>>

\* What a transaction that changes nothing makes its handler answer: another
\* version, the row or the result of another call is a conflict, no open
\* proposal a 404, and a violated unique index an error nobody catches.
Refusal(q) ==
    LET c == req[q].call
    IN  IF ~VersionMatches(q) THEN ConflictAnswer(q)
        ELSE IF req[q].pc = "complete_proposal" /\ Open(req[q].run) = {}
        THEN "not_found"
        ELSE IF /\ req[q].pc = "update_proposal"
                /\ proposals[c] # None => proposals[c].run = req[q].run
        THEN "error"
        ELSE "conflict"

\* Any of the four transactions that finds another version, no open proposal
\* or a violated index.
StoreRefuses(q) ==
    /\ \/ req[q].pc \in Writing /\ ~VersionMatches(q)
       \/ req[q].pc = "update_proposal" /\ ~CanUpsert(q)
       \/ req[q].pc = "complete_proposal" /\ ~CanComplete(q)
    /\ Conflict(q, Refusal(q))

--------------------------------------------------------------------------------
(***************************************************************************)
(* Notification, response and failure of a handler                         *)
(***************************************************************************)

\* trigger_approval_notification, trigger_run_completed_notification and
\* trigger_run_failed_notification; a delivery error is swallowed there.
Event(q) == IF req[q].next.status = "awaiting_approval"
            THEN <<"approval_required", req[q].call>>
            ELSE <<req[q].next.status, req[q].run>>

Notify(q) ==
    /\ req[q].pc = "notify"
    /\ mail' = mail \cup {Event(q)}
    /\ Await(q, Answered(q, Outcome(q)))
    /\ UNCHANGED <<tables, issued>>

\* The handler stops: a transaction in progress is rolled back.
Abort(q) ==
    /\ Faults
    /\ req[q].pc \in Pending
    /\ Await(q, Answered(q, "error"))
    /\ UNCHANGED <<tables, issued, mail>>

Respond(q) ==
    /\ req[q].pc = "done"
    /\ Await(q, Idle)
    /\ UNCHANGED <<tables, issued, mail>>

\* The steps a handler takes once its request has been received.
HandlerStep(q) ==
    \/ PlannerFails(q) \/ PlannerRepairs(q) \/ PlannerRaises(q) \/ DecisionFails(q)
    \/ PlannerDecides(q, "clarifying") \/ PlannerDecides(q, "completed")
    \/ PlannerProposesTool(q)
    \/ Update(q) \/ CancelRun(q) \/ UpdateProposal(q) \/ CompleteProposal(q)
    \/ StoreRefuses(q) \/ Notify(q)

Receive(q) ==
    \E r \in RunIds :
       \/ CancelAgentRun(q, r) \/ BeginAgentPlanning(q, r)
       \/ PlanNextAgentStep(q, r) \/ ProposeAgentTool(q, r)
       \/ GetActiveAgentTool(q, r)
       \/ \E c \in CallIds :
             \/ \E d \in {"approved", "rejected"} :
                   ResolveAgentToolApproval(q, r, c, d)
             \/ \E ok \in BOOLEAN : SubmitAgentToolResult(q, r, c, ok)

Next == \/ \E r \in RunIds : CreateAgentRun(r)
        \/ \E q \in Requests : Receive(q) \/ HandlerStep(q) \/ Abort(q) \/ Respond(q)

Spec == Init /\ [][Next]_vars

--------------------------------------------------------------------------------
(***************************************************************************)
(* Properties                                                              *)
(***************************************************************************)

\* Every variable holds values of its table, and a run never counts more
\* steps than it was given (the CHECK constraint agent_runs_step_count_range).
TypeOK ==
    /\ runs \in [RunIds -> AgentRun \cup {None}]
    /\ proposals \in [CallIds -> ProposalRow \cup {None}]
    /\ results \in [CallIds -> {"none", "succeeded", "failed"}]
    /\ issued \subseteq CallIds
    /\ req \in [Requests -> Request]
    /\ mail \subseteq ({"approval_required"} \X CallIds)
                     \cup ({"completed", "failed"} \X RunIds)

\* The proposal shows the risk its tool is registered with.
Registered(p) == p.name \in Tools /\ p.risk = RegisteredRisk[p.name]

\* A call that may run on the client: a read the policy allowed, or a call
\* whose approval was given.
Authorised(p) ==
    /\ Registered(p)
    /\ \/ p.policy = "allow" /\ p.risk = "read"
       \/ p.policy = "require_approval" /\ p.approval = "approved"

AwaitsDecision(p) ==
    Registered(p) /\ p.policy = "require_approval" /\ p.approval = "pending"

\* Which proposals run r has open in each status.
OpenFitsStatus(r) ==
    \/ /\ runs[r] = None \/ runs[r].status \notin {"awaiting_approval", "executing"}
       /\ Open(r) = {}
    \/ /\ runs[r] # None /\ runs[r].status = "awaiting_approval"
       /\ \E c \in CallIds : Open(r) = {c} /\ AwaitsDecision(proposals[c].proposal)
    \/ /\ runs[r] # None /\ runs[r].status = "executing"
       /\ \E c \in CallIds : Open(r) = {c} /\ Authorised(proposals[c].proposal)

\* The run and the audit table agree in every state, whatever handlers
\* interleave: a run that waits for approval has exactly one open proposal
\* and it is pending; an executing run has exactly one and it is authorised;
\* no other run has an open proposal (ADR-0011).
OpenProposalFollowsStatus == \A r \in RunIds : OpenFitsStatus(r)

\* A result is stored only for a call that was authorised to run, and only
\* together with the closing of its proposal: no API request skips the
\* approval of a tool that is registered as writing, and none has it approved
\* under a risk that is not the tool's (docs/agent-architecture.md).
ResultsAreAuthorised ==
    \A c \in CallIds :
       results[c] # "none" => /\ proposals[c] # None
                              /\ proposals[c].closed
                              /\ Authorised(proposals[c].proposal)

\* The step counter of a run is the number of its audited calls that were
\* let through to execution: neither a conflict nor a retry counts a step
\* twice or forgets one.
StepsAreAudited ==
    \A r \in RunIds :
       runs[r] # None =>
          runs[r].step_count =
             Cardinality({c \in CallIds : /\ proposals[c] # None
                                          /\ proposals[c].run = r
                                          /\ Authorised(proposals[c].proposal)})

\* run is a state that run r was read in: the current one unless the version
\* has moved on.
ReadFrom(run, r) ==
    /\ run \in AgentRun /\ runs[r] # None
    /\ run.version <= runs[r].version
    /\ run.version = runs[r].version => run = runs[r]

\* What a handler suspended in each of the store methods is about to write.
UpdateStep(h) ==
    /\ h.op \in {"plan", "next"}
    /\ \/ /\ h.snap.status \in {"received", "clarifying", "observing"}
          /\ h.next = TransitionTo(h.snap, "planning")
       \/ /\ h.op = "next" /\ h.snap.status = "planning"
          /\ \E s \in {"clarifying", "completed", "failed"} :
                h.next = TransitionTo(h.snap, s)

CancelStep(h) == /\ h.op = "cancel" /\ CanCancelRun(h.snap)
                 /\ h.next = TransitionTo(h.snap, "cancelled")

ProposeStep(h) ==
    /\ h.op \in {"tools", "next"}
    /\ h.call \in issued /\ proposals[h.call] = None
    /\ \E call \in CallRequests :
          /\ CanProposeTool(h.snap, call)
          /\ Evaluate(call, h.snap.workspace) # "deny"
          /\ h.next = ProposedRun(h.snap, call)
          /\ h.proposal = NewProposal(h.snap, call)

ResolveStep(h) ==
    /\ h.op = "approval" /\ h.call \in CallIds
    /\ proposals[h.call] # None /\ proposals[h.call].run = h.run
    /\ \E p \in Proposal, d \in {"approved", "rejected"} :
          /\ CanResolveApproval(h.snap, p, d)
          /\ h.next = TransitionTo(h.snap, ResolvedStatus(d))
          /\ h.proposal = [p EXCEPT !.approval = d]
          /\ h.snap.version = runs[h.run].version
             => h.call \in Open(h.run) /\ proposals[h.call].proposal = p

ResultStep(h) == /\ h.op = "result" /\ h.call \in CallIds
                 /\ CanRecordExecutionResult(h.snap)
                 /\ \E ok \in BOOLEAN :
                       h.next = TransitionTo(h.snap, ResultStatus(ok))

HandlerIsCurrent(h) ==
    /\ h.pc \in Writing => h.run \in RunIds /\ ReadFrom(h.snap, h.run)
    /\ h.pc = "update" => UpdateStep(h)
    /\ h.pc = "cancel_run" => CancelStep(h)
    /\ h.pc = "update_proposal" => ProposeStep(h) \/ ResolveStep(h)
    /\ h.pc = "complete_proposal" => ResultStep(h)
    /\ h.pc \in Planning => /\ h.op = "next" /\ h.run \in RunIds
                            /\ ReadFrom(h.next, h.run)
                            /\ h.next.status = "planning"

\* Whatever else happened since it read the run, a suspended handler is about
\* to write one service operation on the run it read, and if the stored
\* version still matches then the run and its open proposal are as it read
\* them: the version alone tells a stale handler from a current one.
PendingWritesAreCurrent == \A q \in Requests : HandlerIsCurrent(req[q])

\* A completed, cancelled or failed run is never written again, not even by
\* a handler that read it before it ended.
TerminalIsFinal ==
    [][\A r \in RunIds : runs[r] # None /\ runs[r].status \in Terminal
          => runs'[r] = runs[r]]_vars

\* The audit trail is immutable: a closed proposal is never reopened or
\* edited (the upsert writes closed_at), a decision is never replaced by a
\* competing one, a result is never overwritten.
AuditIsFinal ==
    [][\A c \in CallIds :
          /\ proposals[c] # None =>
                /\ proposals'[c] # None /\ proposals'[c].run = proposals[c].run
                /\ proposals[c].closed => proposals'[c] = proposals[c]
                /\ proposals[c].proposal.approval # "pending"
                   => proposals'[c].proposal = proposals[c].proposal
          /\ results[c] # "none" => results'[c] = results[c]]_vars

\* A "run completed" or "run failed" mail is only ever sent about a run that
\* is stored in that state: notifications follow the commit.
MailIsTruthful ==
    \A r \in RunIds, e \in {"completed", "failed"} :
       <<e, r>> \in mail => runs[r] # None /\ runs[r].status = e

\* Some handler still has to send the notification of this event.
Notifying(event) ==
    \E q \in Requests : req[q].pc = "notify" /\ Event(q) = event

\* No run completes or fails unreported: the very step that stores one of
\* these states, on whichever of the paths that lead there, leaves its handler
\* with the notification still to send.
TerminalOutcomeReported ==
    [][\A r \in RunIds, e \in {"completed", "failed"} :
          runs'[r] # runs[r] /\ runs'[r].status = e => Notifying(<<e, r>>)']_vars

\* docs/ai/v09-guide.md: an email is emitted when a run enters
\* awaiting_approval.  plan_next_agent_step stores the pending proposal
\* without notifying, so this does not hold of the code.
ApprovalMailSent ==
    ~Faults => \A c \in CallIds :
       /\ proposals[c] # None /\ ~proposals[c].closed
       /\ proposals[c].proposal.approval = "pending"
       => \/ <<"approval_required", c>> \in mail
          \/ Notifying(<<"approval_required", c>>)

\* The responses resolve_agent_tool_approval declares are 200, 404 and 409:
\* a decision on the active proposal is taken or refused, it never ends in
\* an internal error.  A run that was put back into planning with all steps
\* used shows that it can.
ApprovalIsAnswered ==
    \A q \in Requests : req[q].op = "approval" /\ ~Faults
                         => req[q].response # "error"

\* How many steps a handler can still take: a run about to enter planning has
\* the planner call, its repair, a transaction and a notification before it.
StepsLeft(h) ==
    IF h.pc = "update" /\ h.op = "next" /\ h.next.status = "planning" THEN 5
    ELSE IF h.pc = "planner" THEN 4
    ELSE IF h.pc = "repair" THEN 3
    ELSE IF h.pc \in Writing THEN 2
    ELSE IF h.pc = "notify" THEN 1 ELSE 0

\* The proposals a run has open, as the abstract specification sees them.
ActiveProposals == [r \in RunIds |-> {proposals[c].proposal : c \in Open(r)}]

Lifecycle == INSTANCE RunLifecycle WITH active <- ActiveProposals

\* The concurrent handlers over the versioned store implement the atomic
\* AgentService operations: optimistic versioning makes every stored change
\* one service operation on the current run and its active proposal.
ImplementsLifecycle == Lifecycle!Spec

================================================================================
