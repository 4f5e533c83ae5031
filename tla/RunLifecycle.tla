------------------------------ MODULE RunLifecycle ------------------------------
(***************************************************************************)
(* What the agent API promises about a run: the AgentService operations,   *)
(* each applied atomically to the current run and its active proposal.     *)
(* There are no requests, no snapshots and no versions to compare here;    *)
(* AgentApi is shown to implement this specification.                      *)
(***************************************************************************)
EXTENDS AgentService

CONSTANTS RunIds, CallRequests, None

VARIABLES
    runs,       \* the runs that exist
    active      \* for each run the set holding its active proposal, if any

vars == <<runs, active>>

Init == /\ runs = [r \in RunIds |-> None]
        /\ active = [r \in RunIds |-> {}]

Set(r, run, proposals) ==
    /\ runs' = [runs EXCEPT ![r] = run]
    /\ active' = [active EXCEPT ![r] = proposals]

StartRun(r) ==
    /\ runs[r] = None
    /\ \E n \in 1 .. MAX_AGENT_STEPS, w \in Workspaces : Set(r, NewRun(n, w), {})

Plan(r) ==
    /\ runs[r] # None
    /\ CanBeginPlanning(runs[r]) \/ CanContinuePlanning(runs[r])
    /\ Set(r, TransitionTo(runs[r], "planning"), active[r])

Clarify(r) ==
    /\ runs[r] # None /\ CanRequestClarification(runs[r])
    /\ Set(r, TransitionTo(runs[r], "clarifying"), active[r])

Complete(r) ==
    /\ runs[r] # None /\ CanCompleteRun(runs[r])
    /\ Set(r, TransitionTo(runs[r], "completed"), active[r])

\* The API fails a run only while it plans (record_execution_result is Finish).
Fail(r) ==
    /\ runs[r] # None /\ CanFailRun(runs[r]) /\ runs[r].status = "planning"
    /\ Set(r, TransitionTo(runs[r], "failed"), active[r])

Propose(r) ==
    /\ runs[r] # None
    /\ \E call \in CallRequests :
          /\ CanProposeTool(runs[r], call)
          /\ Evaluate(call, runs[r].workspace) # "deny"
          /\ Set(r, ProposedRun(runs[r], call), {NewProposal(runs[r], call)})

Resolve(r) ==
    /\ runs[r] # None
    /\ \E p \in active[r], d \in {"approved", "rejected"} :
          /\ CanResolveApproval(runs[r], p, d)
          /\ Set(r, TransitionTo(runs[r], ResolvedStatus(d)),
                 IF d = "approved" THEN {[p EXCEPT !.approval = d]} ELSE {})

Finish(r) ==
    /\ runs[r] # None /\ CanRecordExecutionResult(runs[r])
    /\ \E succeeded \in BOOLEAN :
          Set(r, TransitionTo(runs[r], ResultStatus(succeeded)), {})

Cancel(r) ==
    /\ runs[r] # None /\ CanCancelRun(runs[r])
    /\ Set(r, TransitionTo(runs[r], "cancelled"), {})

Next == \E r \in RunIds :
           \/ StartRun(r) \/ Plan(r) \/ Clarify(r) \/ Complete(r) \/ Fail(r)
           \/ Propose(r) \/ Resolve(r) \/ Finish(r) \/ Cancel(r)

Spec == Init /\ [][Next]_vars

================================================================================
