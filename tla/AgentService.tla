------------------------------ MODULE AgentService ------------------------------
(***************************************************************************)
(* The pure operations of application/agent.py (and prepare_run of         *)
(* application/agent_planning.py).  Each takes immutable values; "Can..."  *)
(* says that the method returns instead of raising, the operator after it  *)
(* is what it returns.                                                     *)
(***************************************************************************)
EXTENDS ToolPolicy

\* ToolProposal without its run: the tool of the call and the risk the caller
\* claimed, the policy decision and the ToolApproval's decision.
Proposal == [name     : Tools \cup {UnknownTool},
             risk     : ToolRisk,
             policy   : ToolPolicyDecision,
             approval : ApprovalDecision]

CanRequestClarification(run) ==
    /\ run.status \in {"received", "planning"}
    /\ CanTransition(run, "clarifying")

CanBeginPlanning(run) ==
    /\ run.status \in {"received", "clarifying"}
    /\ CanTransition(run, "planning")

CanContinuePlanning(run) ==
    /\ run.status = "observing"
    /\ CanTransition(run, "planning")

\* Seeded defect: planning restarts from every state that is not terminal.
PrepareAnyRun(run) == run.status \notin Terminal

\* AgentPlanningService.prepare_run moves the run, or keeps a planning one.
CanPrepareRun(run) ==
    CanBeginPlanning(run) \/ CanContinuePlanning(run) \/ run.status = "planning"

PrepareRun(run) ==
    IF run.status = "planning" THEN run ELSE TransitionTo(run, "planning")

\* The status propose_tool selects for an allowed or gated call.
ProposedStatus(decision) ==
    IF decision = "allow" THEN "executing" ELSE "awaiting_approval"

\* propose_tool; a denied proposal leaves the run as it is.
CanProposeTool(run, call) ==
    LET decision == Evaluate(call, run.workspace)
    IN  /\ run.status = "planning"
        /\ decision # "deny" => CanTransition(run, ProposedStatus(decision))

ProposedRun(run, call) ==
    LET decision == Evaluate(call, run.workspace)
    IN  IF decision = "deny" THEN run
        ELSE TransitionTo(run, ProposedStatus(decision))

NewProposal(run, call) ==
    LET decision == Evaluate(call, run.workspace)
    IN  [name     |-> call.name,
         risk     |-> call.risk,
         policy   |-> decision,
         approval |-> IF decision = "require_approval" THEN "pending" ELSE "none"]

ResolvedStatus(decision) ==
    IF decision = "approved" THEN "executing" ELSE "cancelled"

\* The explicit checks of resolve_approval.
HasPendingApproval(run, proposal) ==
    /\ run.status = "awaiting_approval"
    /\ proposal.policy = "require_approval"
    /\ proposal.approval = "pending"

CanResolveApproval(run, proposal, decision) ==
    /\ HasPendingApproval(run, proposal)
    /\ CanTransition(run, ResolvedStatus(decision))

CanRecordExecutionResult(run) == run.status = "executing"

ResultStatus(succeeded) == IF succeeded THEN "observing" ELSE "failed"

CanCompleteRun(run) ==
    /\ run.status \in {"planning", "observing"}
    /\ CanTransition(run, "completed")

\* fail_run and cancel_run refuse to rewrite a terminal outcome.
CanFailRun(run) == run.status \notin Terminal /\ CanTransition(run, "failed")

CanCancelRun(run) == run.status \notin Terminal /\ CanTransition(run, "cancelled")

================================================================================
