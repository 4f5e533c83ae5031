------------------------------ MODULE AgentDomain ------------------------------
(***************************************************************************)
(* The agent domain of domain/agent.py: the lifecycle states of a run, the *)
(* transition table, and transition_to with its step limit.  A run is the  *)
(* immutable AgentRun value; goal and timestamps are left out.             *)
(***************************************************************************)
EXTENDS Naturals

CONSTANTS
    MAX_AGENT_STEPS,    \* upper limit of AgentRun.max_steps (100 in the code)
    Workspaces,         \* workspace identifiers, "" standing for None
    AuthorizedWorkspaces

ASSUME StepsAssumption == MAX_AGENT_STEPS \in Nat \ {0}
ASSUME WorkspaceAssumption == AuthorizedWorkspaces \subseteq Workspaces \ {""}

AgentStatus == {"received", "clarifying", "planning", "awaiting_approval",
                "executing", "observing", "completed", "cancelled", "failed"}

\* AgentStatus.is_terminal
Terminal == {"completed", "cancelled", "failed"}

ToolRisk == {"read", "write", "destructive", "privileged"}

ToolPolicyDecision == {"allow", "require_approval", "deny"}

\* ApprovalDecision; "none" is a proposal that has no ToolApproval.
ApprovalDecision == {"none", "pending", "approved", "rejected"}

\* The values AgentRun.__post_init__ accepts.
AgentRun == {run \in [status     : AgentStatus,
                      step_count : 0 .. MAX_AGENT_STEPS,
                      max_steps  : 1 .. MAX_AGENT_STEPS,
                      version    : Nat,
                      workspace  : Workspaces] : run.step_count <= run.max_steps}

\* AgentRun.create
NewRun(max_steps, workspace) ==
    [status |-> "received", step_count |-> 0, max_steps |-> max_steps,
     version |-> 0, workspace |-> workspace]

\* _ALLOWED_TRANSITIONS
AllowedTransitions(status) ==
    CASE status = "received" ->
            {"clarifying", "planning", "cancelled", "failed"}
      [] status = "clarifying" -> {"planning", "cancelled", "failed"}
      [] status = "planning" ->
            {"clarifying", "awaiting_approval", "executing", "completed",
             "cancelled", "failed"}
      [] status = "awaiting_approval" -> {"executing", "cancelled", "failed"}
      [] status = "executing" -> {"observing", "cancelled", "failed"}
      [] status = "observing" ->
            {"planning", "completed", "cancelled", "failed"}
      [] OTHER -> {}

\* Seeded defect: one step too many.
StepLimitOffByOne(run) == run.step_count > run.max_steps

\* The AgentStepLimitError of transition_to: no step left to execute.
StepLimitReached(run) == run.step_count >= run.max_steps

\* transition_to returns a run instead of raising.
CanTransition(run, status) ==
    /\ status \in AllowedTransitions(run.status)
    /\ status = "executing" => ~StepLimitReached(run)

\* Seeded defect: a step is counted when it is proposed and when it executes.
TransitionCountsTwice(run, status) ==
    [status     |-> status,
     step_count |-> IF status \in {"awaiting_approval", "executing"}
                    THEN run.step_count + 1 ELSE run.step_count,
     max_steps  |-> run.max_steps,
     version    |-> run.version + 1,
     workspace  |-> run.workspace]

\* AgentRun.transition_to
TransitionTo(run, status) ==
    [status     |-> status,
     step_count |-> IF status = "executing" THEN run.step_count + 1
                                            ELSE run.step_count,
     max_steps  |-> run.max_steps,
     version    |-> run.version + 1,
     workspace  |-> run.workspace]

\* StaticWorkspaceAuthorizer.is_authorized
IsAuthorized(workspace) == workspace \in AuthorizedWorkspaces

================================================================================
