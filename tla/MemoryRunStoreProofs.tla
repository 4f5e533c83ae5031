-------------------------- MODULE MemoryRunStoreProofs --------------------------
(***************************************************************************)
(* The store kept in memory implements the one of PostgreSQL, for every    *)
(* number of runs, calls and requests.  The invariant of AgentApi, proved  *)
(* in AgentApiProofs, is used on the rows that PostgreSQL would hold.      *)
(***************************************************************************)
EXTENDS MemoryRunStore, TLAPS

P == INSTANCE AgentApiProofs WITH proposals <- ClosedWithRun

USE DEF Planning, P!Planning

--------------------------------------------------------------------------------
(***************************************************************************)
(* The invariant                                                           *)
(***************************************************************************)

\* An ended run has no active proposal but the one whose rejection ended it.
RejectedStaysActive ==
    \A r \in RunIds : Ended(r) =>
        \/ Open(r) = {}
        \/ /\ runs[r].status = "cancelled"
           /\ \E c \in CallIds : /\ Open(r) = {c}
                                 /\ proposals[c].proposal.approval = "rejected"

MemInv == P!IndInv /\ TypeOK /\ RejectedStaysActive /\ ResultsAreAuthorised

\* AuditIsFinal, for call c.
RowIsFinal(c) ==
    /\ proposals[c] # None =>
          /\ proposals'[c] # None /\ proposals'[c].run = proposals[c].run
          /\ proposals[c].closed => proposals'[c] = proposals[c]
          /\ proposals[c].proposal.approval # "pending"
             => proposals'[c].proposal = proposals[c].proposal
    /\ results[c] # "none" => results'[c] = results[c]

--------------------------------------------------------------------------------
(***************************************************************************)
(* The rows that PostgreSQL would hold                                     *)
(***************************************************************************)

\* The sets and values that do not depend on the rows are the same.
LEMMA SameData ==
    /\ P!Terminal = Terminal /\ P!AgentRun = AgentRun /\ P!Proposal = Proposal
    /\ P!ProposalRow = ProposalRow /\ P!ToolCall = ToolCall /\ P!ToolRisk = ToolRisk
    /\ P!Writing = Writing /\ P!Pending = Pending /\ P!Request = Request
    /\ P!Response = Response
  BY DEF Terminal, P!Terminal, AgentRun, P!AgentRun, AgentStatus, P!AgentStatus,
     Proposal, P!Proposal, ToolRisk, P!ToolRisk, ToolPolicyDecision,
     P!ToolPolicyDecision, ApprovalDecision, P!ApprovalDecision, ProposalRow,
     P!ProposalRow, ToolCall, P!ToolCall, PathKind, P!PathKind, Writing, P!Writing,
     Pending, P!Pending, Request, P!Request, Operation, P!Operation,
     Response, P!Response

\* Closing the rows of ended runs changes nothing else.
LEMMA Rows ==
    ASSUME TypeOK, NEW c \in CallIds
    PROVE  /\ proposals[c] = None <=> ClosedWithRun[c] = None
           /\ proposals[c] # None =>
                 /\ proposals[c] \in ProposalRow /\ ClosedWithRun[c] \in ProposalRow
                 /\ ClosedWithRun[c].run = proposals[c].run
                 /\ ClosedWithRun[c].proposal = proposals[c].proposal
                 /\ ClosedWithRun[c].closed =
                       (proposals[c].closed \/ Ended(proposals[c].run))
  <1>1. proposals[c] \in ProposalRow \cup {None}
    BY DEF TypeOK
  <1>2. CASE proposals[c] = None
    BY <1>2 DEF ClosedWithRun
  <1>3. CASE proposals[c] # None
    <2>1. proposals[c] \in ProposalRow /\ proposals[c].closed \in BOOLEAN
      BY <1>1, <1>3 DEF ProposalRow
    <2>2. CASE Ended(proposals[c].run)
      <3>1. ClosedWithRun[c] = [proposals[c] EXCEPT !.closed = TRUE]
        BY <1>3, <2>2 DEF ClosedWithRun
      <3> QED
        BY <1>3, <2>1, <2>2, <3>1, NoneAssumption DEF ProposalRow
    <2>3. CASE ~Ended(proposals[c].run)
      <3>1. ClosedWithRun[c] = proposals[c]
        BY <2>3 DEF ClosedWithRun
      <3> QED
        BY <1>3, <2>1, <2>3, <3>1
    <2> QED
      BY <2>2, <2>3
  <1> QED
    BY <1>2, <1>3

\* A run that has not ended has the same active proposals in both stores.
LEMMA LiveRun ==
    ASSUME TypeOK, NEW r \in RunIds, ~Ended(r)
    PROVE  P!Open(r) = Open(r)
  BY Rows DEF P!Open, Open

\* The active proposals of a run that has not ended fit its status.
LEMMA LiveFits ==
    ASSUME MemInv, NEW r \in RunIds, ~Ended(r)
    PROVE  OpenFitsStatus(r)
  <1>1. TypeOK /\ P!OpenFitsStatus(r)
    BY DEF MemInv, P!IndInv, P!OpenProposalFollowsStatus
  <1>2. \A c \in Open(r) : c \in CallIds /\ ClosedWithRun[c].proposal = proposals[c].proposal
    BY <1>1, Rows DEF Open
  <1> QED
    BY <1>1, <1>2, LiveRun DEF P!OpenFitsStatus, OpenFitsStatus, P!AwaitsDecision,
       AwaitsDecision, P!Authorised, Authorised, P!Registered, Registered

\* The rows depend on the tables only.
LEMMA RowsStay ==
    ASSUME UNCHANGED <<runs, proposals>>
    PROVE  ClosedWithRun' = ClosedWithRun
  BY DEF ClosedWithRun, Ended

\* The answers that PostgreSQL does not give change nothing else.
LEMMA OtherAnswers ==
    ASSUME req \in [Requests -> Request], NEW q \in Requests,
           AnswersRejected(q) \/ AnswersLateResult(q)
    PROVE  /\ UNCHANGED <<tables, issued, mail>> /\ UNCHANGED P!tables
           /\ \E h \in Request : h.pc = "done" /\ req' = [req EXCEPT ![q] = h]
  <1>1. UNCHANGED <<tables, issued, mail>>
    BY DEF AnswersRejected, AnswersLateResult, Conflict
  <1>2. UNCHANGED P!tables
    BY <1>1, RowsStay DEF tables, P!tables
  <1>3. \A op \in Operation, r \in RunIds \cup {None}, response \in Response :
           Answer(op, r, response) \in Request /\ Answer(op, r, response).pc = "done"
    BY DEF Answer, Request
  <1>4. \E op \in Operation, r \in RunIds \cup {None}, response \in Response :
           Await(q, Answer(op, r, response))
    <2>1. CASE AnswersRejected(q)
      <3>1. PICK r \in RunIds : \/ Await(q, Answer("active", r, "ok"))
                                \/ Await(q, Answer("approval", r, "conflict"))
                                \/ Await(q, Answer("result", r, "conflict"))
        BY <2>1 DEF AnswersRejected
      <3> QED
        BY <3>1, Zenon DEF Operation, Response
    <2>2. CASE AnswersLateResult(q)
      <3>1. req[q].op \in Operation /\ req[q].run \in RunIds \cup {None}
        BY DEF Request
      <3>2. Await(q, Answer(req[q].op, req[q].run, "not_found"))
        BY <2>2 DEF AnswersLateResult, Conflict, Answered
      <3> QED
        BY <3>1, <3>2, Zenon DEF Response
    <2> QED
      BY <2>1, <2>2
  <1> QED
    BY <1>1, <1>2, <1>3, <1>4 DEF Await

\* A step of PostgreSQL's store keeps its invariant, and so do those answers.
LEMMA PostgresKeeps ==
    P!IndInv /\ [P!Next \/ AnswersOtherwise]_(P!vars) => P!IndInv'
  <1> USE StepsAssumption, WorkspaceAssumption, ToolsAssumption, CallRequestsAssumption,
          MaxVersionAssumption, FaultsAssumption, NoneAssumption
  <1> SUFFICES ASSUME P!IndInv, NEW q \in Requests,
                      AnswersRejected(q) \/ AnswersLateResult(q)
               PROVE  P!IndInv'
    BY P!NextIndInv, SameData DEF AnswersOtherwise
  <1>0. req \in [Requests -> Request]
    BY SameData DEF P!IndInv, P!TypeOK
  <1>1. PICK h \in Request : h.pc = "done" /\ req' = [req EXCEPT ![q] = h]
    BY <1>0, OtherAnswers
  <1>2. h \in P!Request /\ h.pc \in {"idle", "done"}
    BY <1>1, SameData
  <1>3. UNCHANGED <<P!tables, issued, mail>>
    BY <1>0, OtherAnswers
  <1> QED
    BY <1>1, <1>2, <1>3, P!AnswerStep, SameData

--------------------------------------------------------------------------------
(***************************************************************************)
(* The steps that write no run                                             *)
(***************************************************************************)

\* The operations of AgentService are the same.
LEMMA SameService ==
    \A run, p, call, s :
       /\ P!CanCancelRun(run) = CanCancelRun(run)
       /\ P!CanBeginPlanning(run) = CanBeginPlanning(run)
       /\ P!CanPrepareRun(run) = CanPrepareRun(run)
       /\ P!PrepareRun(run) = PrepareRun(run)
       /\ P!TransitionTo(run, s) = TransitionTo(run, s)
       /\ P!Evaluate(call, run.workspace) = Evaluate(call, run.workspace)
       /\ P!CanProposeTool(run, call) = CanProposeTool(run, call)
       /\ P!ProposedRun(run, call) = ProposedRun(run, call)
       /\ P!NewProposal(run, call) = NewProposal(run, call)
       /\ P!HasPendingApproval(run, p) = HasPendingApproval(run, p)
       /\ P!CanResolveApproval(run, p, s) = CanResolveApproval(run, p, s)
       /\ P!ResolvedStatus(s) = ResolvedStatus(s)
       /\ P!CanRecordExecutionResult(run) = CanRecordExecutionResult(run)
       /\ P!ResultStatus(s) = ResultStatus(s)
  <1> TAKE run, p, call, s
  <1>1. \A status : P!AllowedTransitions(status) = AllowedTransitions(status)
    BY DEF P!AllowedTransitions, AllowedTransitions
  <1>2. P!Evaluate(call, run.workspace) = Evaluate(call, run.workspace)
    BY DEF P!Evaluate, Evaluate, P!IsAuthorized, IsAuthorized
  <1>3. \A x : /\ P!TransitionTo(run, x) = TransitionTo(run, x)
               /\ P!CanTransition(run, x) = CanTransition(run, x)
    BY <1>1 DEF P!TransitionTo, TransitionTo, P!CanTransition, CanTransition,
       P!StepLimitReached, StepLimitReached
  <1>4. /\ P!CanCancelRun(run) = CanCancelRun(run)
        /\ P!CanBeginPlanning(run) = CanBeginPlanning(run)
        /\ P!CanPrepareRun(run) = CanPrepareRun(run)
        /\ P!PrepareRun(run) = PrepareRun(run)
    BY <1>3, SameData DEF CanCancelRun, P!CanCancelRun, CanBeginPlanning,
       P!CanBeginPlanning, CanContinuePlanning, P!CanContinuePlanning, CanPrepareRun,
       P!CanPrepareRun, PrepareRun, P!PrepareRun
  <1>5. /\ P!CanProposeTool(run, call) = CanProposeTool(run, call)
        /\ P!ProposedRun(run, call) = ProposedRun(run, call)
        /\ P!NewProposal(run, call) = NewProposal(run, call)
    BY <1>2, <1>3 DEF CanProposeTool, P!CanProposeTool, ProposedRun, P!ProposedRun,
       ProposedStatus, P!ProposedStatus, NewProposal, P!NewProposal
  <1>6. /\ P!HasPendingApproval(run, p) = HasPendingApproval(run, p)
        /\ P!CanResolveApproval(run, p, s) = CanResolveApproval(run, p, s)
        /\ P!ResolvedStatus(s) = ResolvedStatus(s)
    BY <1>3 DEF HasPendingApproval, P!HasPendingApproval, CanResolveApproval,
       P!CanResolveApproval, ResolvedStatus, P!ResolvedStatus
  <1>7. /\ P!CanRecordExecutionResult(run) = CanRecordExecutionResult(run)
        /\ P!ResultStatus(s) = ResultStatus(s)
    BY DEF CanRecordExecutionResult, P!CanRecordExecutionResult, ResultStatus,
       P!ResultStatus
  <1> QED
    BY <1>2, <1>3, <1>4, <1>5, <1>6, <1>7

\* A request is received in the same way, but for the answer about a rejected
\* proposal that only memory still holds open.
LEMMA SameReceive ==
    ASSUME MemInv, NEW q \in Requests, Receive(q)
    PROVE  (P!Receive(q) \/ AnswersRejected(q)) /\ UNCHANGED tables
  <1>1. PICK r \in RunIds :
           \/ CancelAgentRun(q, r) \/ BeginAgentPlanning(q, r)
           \/ PlanNextAgentStep(q, r) \/ ProposeAgentTool(q, r)
           \/ GetActiveAgentTool(q, r)
           \/ \E c \in CallIds :
                 \/ \E d \in {"approved", "rejected"} :
                       ResolveAgentToolApproval(q, r, c, d)
                 \/ \E ok \in BOOLEAN : SubmitAgentToolResult(q, r, c, ok)
    BY DEF Receive
  <1>2. /\ UNCHANGED tables /\ Receives(q, r) /\ P!Receives(q, r)
        /\ P!tables' = P!tables
    <2>1. UNCHANGED tables /\ Receives(q, r)
      BY <1>1 DEF CancelAgentRun, BeginAgentPlanning, PlanNextAgentStep,
         ProposeAgentTool, ResolveAgentToolApproval, SubmitAgentToolResult,
         GetActiveAgentTool
    <2> QED
      BY <2>1, RowsStay DEF tables, P!tables, Receives, P!Receives
  <1>3. ASSUME ~(Ended(r) /\ Open(r) # {})
        PROVE  P!Open(r) = Open(r)
    <2>1. P!Open(r) \subseteq Open(r)
      BY Rows DEF MemInv, Open, P!Open
    <2> QED
      BY <1>3, <2>1, LiveRun DEF MemInv
  <1>4. CASE \/ CancelAgentRun(q, r) \/ BeginAgentPlanning(q, r)
             \/ PlanNextAgentStep(q, r)
    <2>1. \/ P!CancelAgentRun(q, r) \/ P!BeginAgentPlanning(q, r)
          \/ P!PlanNextAgentStep(q, r)
      BY <1>2, <1>4, SameService, Zenon
      DEF CancelAgentRun, P!CancelAgentRun, BeginAgentPlanning,
          P!BeginAgentPlanning, PlanNextAgentStep, P!PlanNextAgentStep, Await, P!Await,
          Suspended, P!Suspended, Answer, P!Answer
    <2> QED
      BY <1>2, <2>1 DEF P!Receive
  <1>5. CASE ProposeAgentTool(q, r)
    <2>1. PICK call \in CallRequests :
             \/ /\ ~CanProposeTool(runs[r], call)
                /\ Await(q, Answer("tools", r, IF runs[r].status = "planning"
                                               THEN "refused" ELSE "conflict"))
                /\ UNCHANGED issued
             \/ /\ CanProposeTool(runs[r], call)
                /\ Evaluate(call, runs[r].workspace) = "deny"
                /\ Await(q, Answer("tools", r, "ok"))
                /\ UNCHANGED issued
             \/ /\ CanProposeTool(runs[r], call)
                /\ Evaluate(call, runs[r].workspace) # "deny"
                /\ \E c \in CallIds \ issued :
                      /\ issued' = issued \cup {c}
                      /\ Await(q, Suspended("update_proposal", "tools", r, runs[r],
                                            ProposedRun(runs[r], call), c,
                                            NewProposal(runs[r], call)))
      BY <1>5 DEF ProposeAgentTool
    <2>2. /\ P!CanProposeTool(runs[r], call) = CanProposeTool(runs[r], call)
          /\ P!Evaluate(call, runs[r].workspace) = Evaluate(call, runs[r].workspace)
          /\ P!ProposedRun(runs[r], call) = ProposedRun(runs[r], call)
          /\ P!NewProposal(runs[r], call) = NewProposal(runs[r], call)
      BY SameService
    <2>3. P!ProposeAgentTool(q, r)
      BY <1>2, <1>5, <2>1, <2>2
      DEF ProposeAgentTool, P!ProposeAgentTool, Await, P!Await, Suspended,
          P!Suspended, Answer, P!Answer, P!tables
    <2> QED
      BY <1>2, <2>3 DEF P!Receive
  <1>6. CASE GetActiveAgentTool(q, r)
    <2>1. CASE Ended(r) /\ Open(r) # {}
      BY <1>2, <1>6, <2>1 DEF GetActiveAgentTool, AnswersRejected
    <2>2. CASE ~(Ended(r) /\ Open(r) # {})
      <3>1. P!GetActiveAgentTool(q, r)
        BY <1>2, <1>3, <1>6, <2>2, Zenon
        DEF GetActiveAgentTool, P!GetActiveAgentTool, Await, P!Await, Answer, P!Answer
      <3> QED
        BY <1>2, <3>1 DEF P!Receive
    <2> QED
      BY <2>1, <2>2
  <1>7. ASSUME NEW c \in CallIds, NEW d \in {"approved", "rejected"},
               ResolveAgentToolApproval(q, r, c, d)
        PROVE  P!ResolveAgentToolApproval(q, r, c, d) \/ AnswersRejected(q)
    <2>1. CASE Ended(r) /\ Open(r) # {}
      <3>1. ~HasPendingApproval(runs[r], proposals[c].proposal)
        BY <2>1 DEF HasPendingApproval, Ended, Terminal
      <3>2. Await(q, Answer("approval", r, "conflict"))
        BY <1>7, <2>1, <3>1 DEF ResolveAgentToolApproval
      <3> QED
        BY <1>2, <1>7, <2>1, <3>2 DEF ResolveAgentToolApproval, AnswersRejected
    <2>2. CASE ~(Ended(r) /\ Open(r) # {})
      <3>1. ClosedWithRun[c].proposal = proposals[c].proposal \/ c \notin Open(r)
        BY Rows DEF MemInv, Open
      <3> QED
        BY <1>2, <1>3, <1>7, <2>2, <3>1, SameService, Zenon
        DEF ResolveAgentToolApproval, P!ResolveAgentToolApproval, Await, P!Await,
            Suspended, P!Suspended, Answer, P!Answer
    <2> QED
      BY <2>1, <2>2
  <1>8. ASSUME NEW c \in CallIds, NEW ok \in BOOLEAN, SubmitAgentToolResult(q, r, c, ok)
        PROVE  P!SubmitAgentToolResult(q, r, c, ok) \/ AnswersRejected(q)
    <2>1. CASE Ended(r) /\ Open(r) # {}
      <3>1. ~CanRecordExecutionResult(runs[r])
        BY <2>1 DEF CanRecordExecutionResult, Ended, Terminal
      <3>2. Await(q, Answer("result", r, "conflict"))
        BY <1>8, <2>1, <3>1 DEF SubmitAgentToolResult
      <3> QED
        BY <1>2, <1>8, <2>1, <3>2 DEF SubmitAgentToolResult, AnswersRejected
    <2>2. CASE ~(Ended(r) /\ Open(r) # {})
      BY <1>2, <1>3, <1>8, <2>2, SameService, Zenon
      DEF SubmitAgentToolResult, P!SubmitAgentToolResult, Await, P!Await, Suspended,
          P!Suspended, Answer, P!Answer
    <2> QED
      BY <2>1, <2>2
  <1> QED
    BY <1>1, <1>2, <1>4, <1>5, <1>6, <1>7, <1>8 DEF P!Receive

\* The planner, the notification, the response and the failure of a handler.
BesideStore(q) ==
    \/ PlannerFails(q) \/ PlannerRepairs(q) \/ PlannerRaises(q) \/ DecisionFails(q)
    \/ PlannerDecides(q, "clarifying") \/ PlannerDecides(q, "completed")
    \/ PlannerProposesTool(q) \/ Notify(q) \/ Abort(q) \/ Respond(q)

LEMMA SameBesideStore ==
    ASSUME MemInv, NEW q \in Requests, BesideStore(q)
    PROVE  (P!HandlerStep(q) \/ P!Abort(q) \/ P!Respond(q)) /\ UNCHANGED tables
  <1>1. UNCHANGED tables
    BY DEF BesideStore, PlannerFails, PlannerRepairs, PlannerRaises, DecisionFails,
       PlannerDecides, PlannerProposesTool, FailPlanningRun, Notify, Abort, Respond
  <1>2. P!tables' = P!tables
    BY <1>1, RowsStay DEF tables, P!tables
  <1>3. CASE \/ PlannerFails(q) \/ PlannerRepairs(q) \/ PlannerRaises(q)
             \/ PlannerDecides(q, "clarifying") \/ PlannerDecides(q, "completed")
    BY <1>2, <1>3, SameService, Zenon
    DEF PlannerFails, PlannerRepairs, PlannerRaises, PlannerDecides, FailPlanningRun,
        P!PlannerFails, P!PlannerRepairs, P!PlannerRaises, P!PlannerDecides,
        P!FailPlanningRun, P!HandlerStep, RemainingSteps, P!RemainingSteps, Await,
        P!Await, Suspended, P!Suspended, Answered, P!Answered, Answer, P!Answer
  <1>4. CASE DecisionFails(q)
    <2>1. ASSUME NEW p, FailPlanningRun(q, p) PROVE P!FailPlanningRun(q, p)
      BY <1>2, <2>1, SameService, Zenon
      DEF FailPlanningRun, P!FailPlanningRun, Await, P!Await, Suspended, P!Suspended
    <2>2. P!DecisionFails(q)
      BY <1>4, <2>1, SameService, Zenon
      DEF DecisionFails, P!DecisionFails, RemainingSteps, P!RemainingSteps, ParsedTool,
          P!ParsedTool, ValidArguments, P!ValidArguments, Denied, P!Denied
    <2> QED
      BY <1>1, <2>2 DEF P!HandlerStep
  <1>5. CASE PlannerProposesTool(q)
    <2> DEFINE run == req[q].next
    <2>1. PICK call \in CallRequests, c \in CallIds \ issued :
             /\ ParsedTool(call) /\ ValidArguments(call)
             /\ CanProposeTool(run, call)
             /\ Evaluate(call, run.workspace) # "deny"
             /\ issued' = issued \cup {c}
             /\ Await(q, Suspended("update_proposal", "next", req[q].run, run,
                                   ProposedRun(run, call), c, NewProposal(run, call)))
      BY <1>5 DEF PlannerProposesTool
    <2>2. /\ P!CanProposeTool(run, call) = CanProposeTool(run, call)
          /\ P!Evaluate(call, run.workspace) = Evaluate(call, run.workspace)
          /\ P!ProposedRun(run, call) = ProposedRun(run, call)
          /\ P!NewProposal(run, call) = NewProposal(run, call)
      BY SameService
    <2>3. P!PlannerProposesTool(q)
      BY <1>2, <1>5, <2>1, <2>2
      DEF PlannerProposesTool, P!PlannerProposesTool, RemainingSteps, P!RemainingSteps,
          ParsedTool, P!ParsedTool, ValidArguments, P!ValidArguments, Await, P!Await,
          Suspended, P!Suspended, P!tables
    <2> QED
      BY <1>1, <2>3 DEF P!HandlerStep
  <1>6. CASE Notify(q) \/ Abort(q) \/ Respond(q)
    BY <1>2, <1>6, SameData, Zenon
    DEF Notify, Abort, Respond, P!Notify, P!Abort, P!Respond, P!HandlerStep, Event,
        P!Event, Outcome, P!Outcome, Await, P!Await, Answered, P!Answered, Answer,
        P!Answer, Idle, P!Idle
  <1> QED
    BY <1>1, <1>3, <1>4, <1>5, <1>6 DEF BesideStore

--------------------------------------------------------------------------------
(***************************************************************************)
(* The writes of the store                                                 *)
(***************************************************************************)

\* A write that finds its version is made on a run that has not ended, and
\* touches no other run.
LEMMA WriteIsCurrent ==
    ASSUME MemInv, NEW q \in Requests, req[q].pc \in Writing, VersionMatches(q),
           StoreRun(q)
    PROVE  /\ req[q].run \in RunIds /\ runs[req[q].run] = req[q].snap
           /\ runs[req[q].run] # None /\ ~Ended(req[q].run)
           /\ runs'[req[q].run] = req[q].next /\ req[q].next # None
           /\ \A r : r = req[q].run =>
                 (Ended(r)' <=> req[q].next.status \in Terminal)
           /\ \A r \in RunIds \ {req[q].run} : runs'[r] = runs[r] /\ Ended(r)' = Ended(r)
           /\ P!VersionMatches(q) /\ P!StoreRun(q)
  <1>1. P!VersionMatches(q) /\ P!StoreRun(q) /\ req[q].pc \in P!Writing
    BY SameData DEF VersionMatches, P!VersionMatches, StoreRun, P!StoreRun
  <1>2. /\ req[q].run \in RunIds /\ runs[req[q].run] = req[q].snap
        /\ req[q].snap.status \notin Terminal
        /\ req[q].next \in AgentRun
    BY <1>1, P!CommitIsCurrent, SameData, StepsAssumption, WorkspaceAssumption,
       ToolsAssumption, CallRequestsAssumption, MaxVersionAssumption, FaultsAssumption,
       NoneAssumption DEF MemInv
  <1>3. runs[req[q].run] # None /\ runs \in [RunIds -> AgentRun \cup {None}]
    BY DEF VersionMatches, MemInv, TypeOK
  <1>4. runs' = [runs EXCEPT ![req[q].run] = req[q].next]
    BY DEF StoreRun
  <1> QED
    BY <1>1, <1>2, <1>3, <1>4, NoneAssumption DEF Ended

\* What a current write of a proposal or of a result is about.
LEMMA WriteIsPlanned ==
    ASSUME MemInv, NEW q \in Requests
    PROVE  /\ req[q].pc = "update" => P!UpdateStep(req[q])
           /\ req[q].pc = "cancel_run" => P!CancelStep(req[q])
           /\ req[q].pc = "update_proposal" =>
                 P!ProposeStep(req[q]) \/ P!ResolveStep(req[q])
           /\ req[q].pc = "complete_proposal" => P!ResultStep(req[q])
  BY DEF MemInv, P!IndInv, P!PendingWritesAreCurrent, P!HandlerIsCurrent

\* The handler goes on in the same way.
LEMMA SameContinue == \A q : Continue(q) => P!Continue(q)
  BY DEF Continue, P!Continue, Await, P!Await, Answered, P!Answered, Answer, P!Answer

\* What every write of the store does.
Writes(q) ==
    /\ proposals' \in [CallIds -> ProposalRow \cup {None}]
    /\ RejectedStaysActive' /\ ResultsAreAuthorised'
    /\ \A c \in CallIds : RowIsFinal(c)

\* update: the run has no active proposal before it and none after it.
LEMMA SameUpdate ==
    ASSUME MemInv, NEW q \in Requests, StoreUpdate(q)
    PROVE  P!Update(q) /\ Writes(q)
  <1> DEFINE r == req[q].run
  <1>1. /\ req[q].pc = "update" /\ VersionMatches(q) /\ StoreRun(q) /\ Continue(q)
        /\ UNCHANGED <<proposals, results, issued, mail>>
    BY DEF StoreUpdate, Update
  <1>2. /\ r \in RunIds /\ runs[r] = req[q].snap /\ runs[r] # None /\ ~Ended(r)
        /\ runs'[r] = req[q].next
        /\ \A x \in RunIds \ {r} : runs'[x] = runs[x] /\ Ended(x)' = Ended(x)
        /\ P!VersionMatches(q) /\ P!StoreRun(q)
    BY <1>1, WriteIsCurrent DEF Writing
  <1>3. Open(r) = {}
    <2>1. runs[r].status \notin {"awaiting_approval", "executing"}
      BY <1>1, <1>2, WriteIsPlanned DEF P!UpdateStep
    <2> QED
      BY <1>2, <2>1, LiveFits DEF OpenFitsStatus
  <1>4. ASSUME NEW c \in CallIds PROVE ClosedWithRun'[c] = ClosedWithRun[c]
    <2>1. CASE proposals[c] # None /\ proposals[c].run = r
      <3>1. proposals[c] \in ProposalRow /\ proposals[c].closed
        BY <1>3, <2>1, Rows DEF MemInv, Open
      <3>2. [proposals[c] EXCEPT !.closed = TRUE] = proposals[c]
        BY <3>1 DEF ProposalRow
      <3> QED
        BY <1>1, <3>2 DEF ClosedWithRun
    <2>2. CASE proposals[c] # None /\ proposals[c].run # r
      <3>1. proposals[c].run \in RunIds
        BY <2>2, Rows DEF MemInv, ProposalRow
      <3>2. Ended(proposals[c].run)' = Ended(proposals[c].run)
        BY <1>1, <1>2, <2>2, <3>1
      <3> QED
        BY <1>1, <3>2 DEF ClosedWithRun
    <2>3. CASE proposals[c] = None
      BY <1>1, <2>3 DEF ClosedWithRun
    <2> QED
      BY <2>1, <2>2, <2>3
  <1>5. ClosedWithRun' = ClosedWithRun
    BY <1>4 DEF ClosedWithRun
  <1>6. P!Update(q)
    BY <1>1, <1>2, <1>5, SameContinue DEF P!Update
  <1>7. RejectedStaysActive'
    <2>1. \A x \in RunIds : Open(x)' = Open(x)
      BY <1>1 DEF Open
    <2> QED
      BY <1>1, <1>2, <1>3, <2>1 DEF MemInv, RejectedStaysActive
  <1>8. /\ proposals' \in [CallIds -> ProposalRow \cup {None}] /\ ResultsAreAuthorised'
        /\ \A c \in CallIds : RowIsFinal(c)
    BY <1>1 DEF MemInv, TypeOK, ResultsAreAuthorised, Authorised, RowIsFinal
  <1> QED
    BY <1>6, <1>7, <1>8 DEF Writes

\* An active row of the run that ends is closed in both stores; the others of
\* that run are closed already, and those of other runs stay.
LEMMA EndingRow ==
    ASSUME MemInv, NEW r \in RunIds, ~Ended(r), NEW c \in CallIds,
           proposals'[c] = proposals[c],
           \A x \in RunIds \ {r} : Ended(x)' = Ended(x),
           c \notin Open(r) \/ ~Ended(r)'
    PROVE  ClosedWithRun'[c] = ClosedWithRun[c]
  <1>1. CASE proposals[c] # None /\ proposals[c].run = r
    <2>1. proposals[c] \in ProposalRow
      BY <1>1, Rows DEF MemInv
    <2>2. CASE proposals[c].closed
      <3>1. [proposals[c] EXCEPT !.closed = TRUE] = proposals[c]
        BY <2>1, <2>2 DEF ProposalRow
      <3> QED
        BY <3>1 DEF ClosedWithRun
    <2>3. CASE ~proposals[c].closed
      <3>1. ~Ended(r)'
        BY <1>1, <2>3 DEF Open
      <3> QED
        BY <1>1, <3>1 DEF ClosedWithRun
    <2> QED
      BY <2>2, <2>3
  <1>2. CASE proposals[c] # None /\ proposals[c].run # r
    <2>1. proposals[c].run \in RunIds
      BY <1>2, Rows DEF MemInv, ProposalRow
    <2>2. \A x : x = proposals[c].run => Ended(x)' = Ended(x)
      BY <1>2, <2>1
    <2> QED
      BY <2>2 DEF ClosedWithRun
  <1>3. CASE proposals[c] = None
    BY <1>3 DEF ClosedWithRun
  <1> QED
    BY <1>1, <1>2, <1>3

\* cancel_run: every row of the run is closed in both stores.
LEMMA SameCancel ==
    ASSUME MemInv, NEW q \in Requests, StoreCancelRun(q)
    PROVE  P!CancelRun(q) /\ Writes(q)
  <1>1. /\ req[q].pc = "cancel_run" /\ VersionMatches(q) /\ StoreRun(q) /\ Continue(q)
        /\ proposals' = WithoutOpen(req[q].run)
        /\ UNCHANGED <<results, issued, mail>>
    BY DEF StoreCancelRun
  <1>2. PICK r \in RunIds :
           /\ r = req[q].run /\ runs[r] = req[q].snap /\ ~Ended(r)
           /\ Ended(r)' <=> req[q].next.status \in Terminal
           /\ \A x \in RunIds \ {r} : runs'[x] = runs[x] /\ Ended(x)' = Ended(x)
           /\ P!VersionMatches(q) /\ P!StoreRun(q)
    BY <1>1, WriteIsCurrent DEF Writing
  <1>3. Ended(r)'
    <2>1. req[q].next.status = "cancelled"
      BY <1>1, WriteIsPlanned, SameService DEF P!CancelStep, TransitionTo
    <2> QED
      BY <1>2, <2>1 DEF Terminal
  <1>4. \A c \in CallIds :
           proposals'[c] = IF c \in Open(r) THEN [proposals[c] EXCEPT !.closed = TRUE]
                                            ELSE proposals[c]
    BY <1>1, <1>2 DEF WithoutOpen
  <1>5. ASSUME NEW c \in CallIds
        PROVE  ClosedWithRun'[c] = IF c \in P!Open(r)
                                   THEN [ClosedWithRun[c] EXCEPT !.closed = TRUE]
                                   ELSE ClosedWithRun[c]
    <2>1. P!Open(r) = Open(r)
      BY <1>2, LiveRun DEF MemInv
    <2>2. CASE c \in Open(r)
      <3>1. /\ proposals[c] \in ProposalRow /\ proposals[c].run = r
            /\ ClosedWithRun[c] = proposals[c]
        BY <1>2, <2>2, Rows DEF MemInv, Open, ClosedWithRun
      <3>2. /\ proposals'[c] = [proposals[c] EXCEPT !.closed = TRUE]
            /\ proposals'[c] # None /\ proposals'[c].run = r
        BY <1>4, <2>2, <3>1, NoneAssumption DEF ProposalRow
      <3>3. ClosedWithRun'[c] = [proposals'[c] EXCEPT !.closed = TRUE]
        BY <1>3, <3>2 DEF ClosedWithRun
      <3> QED
        BY <2>1, <2>2, <3>1, <3>2, <3>3 DEF ProposalRow
    <2>3. CASE c \notin Open(r)
      <3>1. proposals'[c] = proposals[c]
        BY <1>4, <2>3
      <3> QED
        BY <1>2, <2>1, <2>3, <3>1, EndingRow
    <2> QED
      BY <2>2, <2>3
  <1>6. P!CancelRun(q)
    <2>1. ClosedWithRun' = P!WithoutOpen(r)
      BY <1>5 DEF ClosedWithRun, P!WithoutOpen
    <2> QED
      BY <1>1, <1>2, <2>1, SameContinue DEF P!CancelRun
  <1>7. \A c \in CallIds : proposals[c] # None =>
           /\ proposals[c] \in ProposalRow /\ proposals'[c] \in ProposalRow
           /\ proposals'[c] # None /\ proposals'[c].run = proposals[c].run
           /\ proposals'[c].proposal = proposals[c].proposal
           /\ proposals'[c].closed = (proposals[c].closed \/ proposals[c].run = r)
           /\ proposals[c].closed => proposals'[c] = proposals[c]
    <2> SUFFICES ASSUME NEW c \in CallIds, proposals[c] # None
                 PROVE  /\ proposals[c] \in ProposalRow /\ proposals'[c] \in ProposalRow
                        /\ proposals'[c] # None /\ proposals'[c].run = proposals[c].run
                        /\ proposals'[c].proposal = proposals[c].proposal
                        /\ proposals'[c].closed =
                              (proposals[c].closed \/ proposals[c].run = r)
                        /\ proposals[c].closed => proposals'[c] = proposals[c]
      OBVIOUS
    <2>1. proposals[c] \in ProposalRow
      BY Rows DEF MemInv
    <2> QED
      BY <1>4, <2>1, NoneAssumption DEF ProposalRow, Open
  <1>8. \A c \in CallIds : proposals[c] = None => proposals'[c] = None
    BY <1>4 DEF Open
  <1>9. RejectedStaysActive'
    <2>1. Open(r)' = {}
      BY <1>7, <1>8 DEF Open
    <2>2. ASSUME NEW x \in RunIds \ {r}, Ended(x)' PROVE Open(x)' = Open(x)
      BY <1>7, <1>8 DEF Open
    <2>3. \A x \in RunIds, c \in CallIds : c \in Open(x) =>
             proposals'[c].proposal = proposals[c].proposal
      BY <1>7 DEF Open
    <2> QED
      BY <1>2, <2>1, <2>2, <2>3 DEF MemInv, RejectedStaysActive
  <1>10. ResultsAreAuthorised'
    BY <1>1, <1>7 DEF MemInv, ResultsAreAuthorised, Authorised
  <1>11. proposals' \in [CallIds -> ProposalRow \cup {None}]
    BY <1>1, <1>7, <1>8 DEF WithoutOpen
  <1> QED
    BY <1>1, <1>6, <1>7, <1>9, <1>10, <1>11 DEF Writes, RowIsFinal

\* An entry of the history, active and closed.
LEMMA NewRow ==
    ASSUME NEW r \in RunIds, NEW p \in Proposal
    PROVE  LET active == [run |-> r, closed |-> FALSE, proposal |-> p]
           IN  /\ active \in ProposalRow /\ active # None
               /\ [active EXCEPT !.closed = TRUE] =
                     [run |-> r, closed |-> TRUE, proposal |-> p]
  <1>1. PICK x \in ProposalRow : x = [run |-> r, closed |-> FALSE, proposal |-> p]
    BY DEF ProposalRow
  <1>2. PICK y \in ProposalRow : y = [run |-> r, closed |-> TRUE, proposal |-> p]
    BY DEF ProposalRow
  <1>3. x.run = y.run /\ x.proposal = y.proposal /\ y.closed = TRUE
    BY <1>1, <1>2
  <1>4. [x EXCEPT !.closed = TRUE] = y
    BY <1>3 DEF ProposalRow
  <1>5. x # None
    BY NoneAssumption
  <1> QED
    BY <1>1, <1>2, <1>4, <1>5, Zenon

\* What update_proposal finds: a new call on a planning run, or the decided
\* call on the run that waits for it.
LEMMA ProposalIsCurrent ==
    ASSUME MemInv, NEW q \in Requests, StoreUpdateProposal(q), NEW r \in RunIds,
           r = req[q].run
    PROVE  /\ req[q].call \in CallIds /\ req[q].proposal \in Proposal
           /\ Open(r) \subseteq {req[q].call}
           /\ results[req[q].call] = "none"
           /\ \/ /\ proposals[req[q].call] = None
                 /\ req[q].next.status \notin Terminal
              \/ /\ Open(r) = {req[q].call}
                 /\ proposals[req[q].call].proposal.approval = "pending"
                 /\ req[q].next.status \in Terminal =>
                       /\ req[q].next.status = "cancelled"
                       /\ req[q].proposal.approval = "rejected"
  <1> DEFINE h == req[q]
  <1>1. /\ h.pc = "update_proposal" /\ h.pc \in Writing
        /\ VersionMatches(q) /\ StoreRun(q)
    BY DEF StoreUpdateProposal, Writing
  <1>2. /\ runs[r] = h.snap /\ runs[r] # None /\ ~Ended(r) /\ P!VersionMatches(q)
    BY <1>1, WriteIsCurrent
  <1>3. h.call \in CallIds /\ h.proposal \in Proposal
    BY <1>1, P!PendingWrite, SameData, StepsAssumption, WorkspaceAssumption,
       ToolsAssumption, CallRequestsAssumption, MaxVersionAssumption, FaultsAssumption,
       NoneAssumption DEF MemInv
  <1>4. OpenFitsStatus(r)
    BY <1>2, LiveFits
  <1>5. proposals[h.call] = None \/ h.call \in Open(r) => results[h.call] = "none"
    BY <1>3 DEF MemInv, ResultsAreAuthorised, Open
  <1>6. CASE P!ProposeStep(h)
    <2>1. PICK call \in CallRequests :
             /\ P!CanProposeTool(h.snap, call)
             /\ P!Evaluate(call, h.snap.workspace) # "deny"
             /\ h.next = P!ProposedRun(h.snap, call)
      BY <1>6 DEF P!ProposeStep
    <2>2. /\ h.snap.status = "planning"
          /\ h.next.status \in {"awaiting_approval", "executing"}
      BY <2>1 DEF P!CanProposeTool, P!ProposedRun, P!TransitionTo, P!ProposedStatus
    <2>3. Open(r) = {}
      BY <1>2, <1>4, <2>2 DEF OpenFitsStatus
    <2>4. proposals[h.call] = None
      BY <1>3, <1>6, Rows DEF P!ProposeStep, MemInv
    <2> QED
      BY <1>3, <1>5, <2>2, <2>3, <2>4 DEF Terminal
  <1>7. CASE P!ResolveStep(h)
    <2>1. PICK p \in P!Proposal, d \in {"approved", "rejected"} :
             /\ P!CanResolveApproval(h.snap, p, d)
             /\ h.next = P!TransitionTo(h.snap, P!ResolvedStatus(d))
             /\ h.proposal = [p EXCEPT !.approval = d]
             /\ h.call \in P!Open(h.run) /\ ClosedWithRun[h.call].proposal = p
      BY <1>2, <1>7 DEF P!ResolveStep
    <2>2. h.call \in Open(r) /\ proposals[h.call].proposal = p
      BY <1>2, <1>3, <2>1, LiveRun, Rows DEF MemInv
    <2>3. h.snap.status = "awaiting_approval" /\ p.approval = "pending"
      BY <2>1 DEF P!CanResolveApproval, P!HasPendingApproval
    <2>4. Open(r) = {h.call}
      BY <1>2, <1>4, <2>2, <2>3 DEF OpenFitsStatus
    <2>5. /\ h.next.status \in Terminal => d = "rejected" /\ h.next.status = "cancelled"
          /\ h.proposal.approval = d
      <3>1. p \in Proposal
        BY <2>1, SameData
      <3> QED
        BY <2>1, <3>1 DEF P!TransitionTo, P!ResolvedStatus, Terminal, Proposal
    <2> QED
      BY <1>3, <1>5, <2>2, <2>3, <2>4, <2>5
  <1> QED
    BY <1>1, <1>6, <1>7, WriteIsPlanned

\* update_proposal: without an index and without closing, the row of the call is
\* still the only one that changes.
LEMMA SameProposal ==
    ASSUME MemInv, NEW q \in Requests, StoreUpdateProposal(q)
    PROVE  P!UpdateProposal(q) /\ Writes(q)
  <1>1. /\ req[q].pc = "update_proposal" /\ VersionMatches(q) /\ StoreRun(q)
        /\ Continue(q) /\ proposals' = HistoryUpdated(q)
        /\ UNCHANGED <<results, issued, mail>>
    BY DEF StoreUpdateProposal
  <1>2. PICK r \in RunIds :
           /\ r = req[q].run /\ runs[r] = req[q].snap /\ ~Ended(r)
           /\ runs'[r] = req[q].next
           /\ Ended(r)' <=> req[q].next.status \in Terminal
           /\ \A x \in RunIds \ {r} : runs'[x] = runs[x] /\ Ended(x)' = Ended(x)
           /\ P!VersionMatches(q) /\ P!StoreRun(q)
    BY <1>1, WriteIsCurrent DEF Writing
  <1>3. PICK c \in CallIds : c = req[q].call
    BY <1>2, ProposalIsCurrent
  <1> DEFINE row == [run |-> r, closed |-> FALSE, proposal |-> req[q].proposal]
             ends == req[q].next.status \in Terminal
  <1>4. /\ req[q].proposal \in Proposal /\ Open(r) \subseteq {c} /\ results[c] = "none"
        /\ \/ proposals[c] = None /\ ~ends
           \/ /\ Open(r) = {c} /\ proposals[c].proposal.approval = "pending"
              /\ ends => /\ req[q].next.status = "cancelled"
                         /\ req[q].proposal.approval = "rejected"
    BY <1>2, <1>3, ProposalIsCurrent
  <1>5. /\ row \in ProposalRow /\ row # None
        /\ [row EXCEPT !.closed = TRUE] =
              [run |-> r, closed |-> TRUE, proposal |-> req[q].proposal]
    BY <1>4, NewRow
  <1>6. /\ proposals'[c] = row
        /\ \A x \in CallIds \ {c} : proposals'[x] = proposals[x]
        /\ proposals' \in [CallIds -> ProposalRow \cup {None}]
    BY <1>1, <1>2, <1>3, <1>4, <1>5 DEF HistoryUpdated, MemInv, TypeOK
  <1>7. proposals[c] # None => proposals[c].run = r /\ ~proposals[c].closed
    BY <1>4 DEF Open
  <1>8. P!UpdateProposal(q)
    <2>1. ClosedWithRun'[c] = [run |-> r, closed |-> ends, proposal |-> req[q].proposal]
      <3>1. ClosedWithRun'[c] = IF Ended(r)' THEN [row EXCEPT !.closed = TRUE] ELSE row
        <4>1. proposals'[c] # None /\ proposals'[c].run = r
          BY <1>5, <1>6
        <4>2. ClosedWithRun'[c] = IF Ended(r)' THEN [proposals'[c] EXCEPT !.closed = TRUE]
                                  ELSE proposals'[c]
          BY <4>1 DEF ClosedWithRun, Ended
        <4> QED
          BY <1>6, <4>2
      <3>2. CASE ends
        <4>1. ClosedWithRun'[c] = [row EXCEPT !.closed = TRUE]
          BY <1>2, <3>1, <3>2
        <4> QED
          BY <1>5, <3>2, <4>1, Zenon
      <3>3. CASE ~ends
        <4>1. ClosedWithRun'[c] = row
          BY <1>2, <3>1, <3>3
        <4>2. ends = FALSE
          BY <3>3
        <4> QED
          BY <4>1, <4>2, Zenon
      <3> QED
        BY <3>2, <3>3
    <2>2. \A x \in CallIds \ {c} : ClosedWithRun'[x] = ClosedWithRun[x]
      BY <1>2, <1>4, <1>6, EndingRow
    <2>3. ClosedWithRun' =
             [ClosedWithRun EXCEPT ![req[q].call] =
                [run |-> req[q].run, closed |-> req[q].next.status \in P!Terminal,
                 proposal |-> req[q].proposal]]
      <3>1. [run |-> req[q].run, closed |-> req[q].next.status \in P!Terminal,
             proposal |-> req[q].proposal] =
            [run |-> r, closed |-> ends, proposal |-> req[q].proposal]
        BY <1>2, SameData
      <3> QED
        BY <1>3, <2>1, <2>2, <3>1 DEF ClosedWithRun
    <2>4. P!CanUpsert(q)
      <3>1. P!Open(r) = Open(r)
        BY <1>2, LiveRun DEF MemInv
      <3>2. ClosedWithRun[c] # None => ClosedWithRun[c].run = r
        BY <1>7, Rows DEF MemInv
      <3> QED
        BY <1>2, <1>3, <1>4, <3>1, <3>2 DEF P!CanUpsert
    <2> QED
      BY <1>1, <1>2, <2>3, <2>4, SameContinue DEF P!UpdateProposal
  <1>9. RejectedStaysActive'
    <2>1. Open(r)' = {c}
      BY <1>3, <1>4, <1>5, <1>6 DEF Open
    <2>2. \A x \in RunIds \ {r} : Open(x)' = Open(x)
      BY <1>5, <1>6, <1>7 DEF Open
    <2>3. Ended(r)' => /\ runs'[r].status = "cancelled"
                       /\ proposals'[c].proposal.approval = "rejected"
      BY <1>2, <1>4, <1>5, <1>6
    <2>4. ASSUME NEW x \in RunIds \ {r}, Ended(x)'
          PROVE  \/ Open(x)' = {}
                 \/ /\ runs'[x].status = "cancelled"
                    /\ \E y \in CallIds :
                          /\ Open(x)' = {y}
                          /\ proposals'[y].proposal.approval = "rejected"
      <3>1. c \notin Open(x)
        BY <1>7 DEF Open
      <3> QED
        BY <1>2, <1>6, <2>2, <2>4, <3>1 DEF MemInv, RejectedStaysActive
    <2> QED
      BY <2>1, <2>3, <2>4 DEF RejectedStaysActive
  <1>10. ResultsAreAuthorised'
    BY <1>1, <1>4, <1>6 DEF MemInv, ResultsAreAuthorised, Authorised
  <1>11. \A x \in CallIds : RowIsFinal(x)
    BY <1>1, <1>4, <1>5, <1>6, <1>7 DEF RowIsFinal
  <1> QED
    BY <1>6, <1>8, <1>9, <1>10, <1>11 DEF Writes

\* complete_proposal: an active call has no result yet, and its run has no other.
LEMMA SameResult ==
    ASSUME MemInv, NEW q \in Requests, StoreCompleteProposal(q)
    PROVE  P!CompleteProposal(q) /\ Writes(q)
  <1>1. /\ req[q].pc = "complete_proposal" /\ VersionMatches(q) /\ StoreRun(q)
        /\ Continue(q) /\ req[q].call \in Open(req[q].run)
        /\ results' = [results EXCEPT ![req[q].call] =
                          IF req[q].next.status = "observing"
                          THEN "succeeded" ELSE "failed"]
        /\ proposals' = [proposals EXCEPT ![req[q].call].closed = TRUE]
        /\ UNCHANGED <<issued, mail>>
    BY DEF StoreCompleteProposal
  <1>2. PICK r \in RunIds :
           /\ r = req[q].run /\ runs[r] = req[q].snap /\ runs[r] # None /\ ~Ended(r)
           /\ Ended(r)' <=> req[q].next.status \in Terminal
           /\ \A x \in RunIds \ {r} : runs'[x] = runs[x] /\ Ended(x)' = Ended(x)
           /\ P!VersionMatches(q) /\ P!StoreRun(q)
    BY <1>1, WriteIsCurrent DEF Writing
  <1>3. PICK c \in CallIds : c = req[q].call /\ c \in Open(r)
    BY <1>1, <1>2 DEF Open
  <1>4. Open(r) = {c} /\ Authorised(proposals[c].proposal)
    <2>1. runs[r].status = "executing"
      BY <1>1, <1>2, WriteIsPlanned DEF P!ResultStep, P!CanRecordExecutionResult
    <2> QED
      BY <1>2, <1>3, <2>1, LiveFits DEF OpenFitsStatus
  <1>5. results[c] = "none"
    BY <1>3 DEF MemInv, ResultsAreAuthorised, Open
  <1>6. /\ proposals[c] \in ProposalRow /\ proposals[c].run = r /\ ~proposals[c].closed
        /\ proposals[c] # None /\ ClosedWithRun[c] = proposals[c]
    BY <1>2, <1>3, Rows DEF MemInv, Open, ClosedWithRun
  <1>7. /\ proposals'[c] = [proposals[c] EXCEPT !.closed = TRUE]
        /\ proposals'[c] \in ProposalRow /\ proposals'[c] # None
        /\ \A x \in CallIds \ {c} : proposals'[x] = proposals[x]
        /\ proposals' \in [CallIds -> ProposalRow \cup {None}]
    <2>1. proposals \in [CallIds -> ProposalRow \cup {None}]
      BY DEF MemInv, TypeOK
    <2> QED
      BY <1>1, <1>3, <1>6, <2>1, NoneAssumption DEF ProposalRow
  <1>8. /\ \A x \in CallIds \ {c} : results'[x] = results[x]
        /\ proposals'[c].closed /\ proposals'[c].run = r
        /\ proposals'[c].proposal = proposals[c].proposal
    BY <1>1, <1>3, <1>6, <1>7 DEF MemInv, TypeOK, ProposalRow
  <1>9. P!CompleteProposal(q)
    <2>1. ClosedWithRun'[c] = [ClosedWithRun[c] EXCEPT !.closed = TRUE]
      <3>1. \/ ClosedWithRun'[c] = proposals'[c]
            \/ ClosedWithRun'[c] = [proposals'[c] EXCEPT !.closed = TRUE]
        BY DEF ClosedWithRun
      <3> QED
        BY <1>6, <1>7, <3>1 DEF ProposalRow
    <2>2. \A x \in CallIds \ {c} : ClosedWithRun'[x] = ClosedWithRun[x]
      BY <1>2, <1>4, <1>7, EndingRow
    <2>3. ClosedWithRun' = [ClosedWithRun EXCEPT ![req[q].call].closed = TRUE]
      BY <1>3, <2>1, <2>2 DEF ClosedWithRun
    <2>4. P!CanComplete(q)
      BY <1>2, <1>3, <1>5, LiveRun DEF P!CanComplete, MemInv
    <2> QED
      BY <1>1, <1>2, <2>3, <2>4, SameContinue DEF P!CompleteProposal
  <1>10. RejectedStaysActive'
    <2>1. Open(r)' = {}
      <3>1. \A x \in CallIds \ {c} : x \notin Open(r)
        BY <1>4
      <3> QED
        BY <1>7, <1>8, <3>1 DEF Open
    <2>2. \A x \in RunIds \ {r} : Open(x)' = Open(x) /\ c \notin Open(x)
      <3> TAKE x \in RunIds \ {r}
      <3>1. c \notin Open(x) /\ c \notin Open(x)'
        BY <1>6, <1>8 DEF Open
      <3>2. \A y \in CallIds \ {c} : y \in Open(x)' <=> y \in Open(x)
        BY <1>7 DEF Open
      <3>3. Open(x) \subseteq CallIds /\ Open(x)' \subseteq CallIds
        BY DEF Open
      <3> QED
        BY <3>1, <3>2, <3>3
    <2> QED
      BY <1>2, <1>7, <2>1, <2>2 DEF MemInv, RejectedStaysActive
  <1>11. ResultsAreAuthorised'
    <2> SUFFICES ASSUME NEW x \in CallIds, results'[x] # "none"
                 PROVE  /\ proposals'[x] # None /\ proposals'[x].closed
                        /\ Authorised(proposals'[x].proposal)
      BY DEF ResultsAreAuthorised, Authorised
    <2>1. CASE x = c
      BY <1>4, <1>7, <1>8, <2>1 DEF Authorised
    <2>2. CASE x # c
      <3>1. results[x] # "none" /\ proposals'[x] = proposals[x]
        BY <1>7, <1>8, <2>2
      <3> QED
        BY <3>1 DEF MemInv, ResultsAreAuthorised, Authorised
    <2> QED
      BY <2>1, <2>2
  <1>12. \A x \in CallIds : RowIsFinal(x)
    BY <1>5, <1>6, <1>7, <1>8 DEF RowIsFinal
  <1> QED
    BY <1>7, <1>9, <1>10, <1>11, <1>12 DEF Writes

\* A refusal of the memory's store is one of PostgreSQL's, but for the answer to
\* a late result.
LEMMA SameConflict ==
    ASSUME MemInv, NEW q \in Requests, StoreConflict(q)
    PROVE  (P!StoreRefuses(q) \/ AnswersLateResult(q)) /\ UNCHANGED tables
  <1> DEFINE r == req[q].run
  <1>1. UNCHANGED tables /\ Conflict(q, StoreRefusal(q))
    BY DEF StoreConflict, Conflict
  <1>2. ASSUME NEW answer, Conflict(q, answer) PROVE P!Conflict(q, answer)
    <2>1. P!tables' = P!tables
      BY <1>1, RowsStay DEF tables, P!tables
    <2> QED
      BY <1>2, <2>1 DEF Conflict, P!Conflict, Await, P!Await, Answered, P!Answered,
         Answer, P!Answer
  <1>3. P!VersionMatches(q) = VersionMatches(q) /\ P!ConflictAnswer(q) = ConflictAnswer(q)
    BY DEF VersionMatches, P!VersionMatches, ConflictAnswer, P!ConflictAnswer
  <1>4. CASE req[q].pc # "complete_proposal"
    <2>1. /\ req[q].pc \in Writing /\ ~VersionMatches(q)
          /\ Conflict(q, ConflictAnswer(q))
      BY <1>1, <1>4 DEF StoreConflict, StoreRefusal
    <2>2. P!Conflict(q, P!Refusal(q))
      BY <1>2, <1>3, <2>1 DEF P!Refusal
    <2> QED
      BY <1>1, <1>3, <2>1, <2>2, SameData DEF P!StoreRefuses
  <1>5. CASE req[q].pc = "complete_proposal" /\ ~VersionMatches(q)
    <2>1. CASE Open(r) = {}
      BY <1>1, <1>5, <2>1 DEF StoreRefusal, AnswersLateResult
    <2>2. CASE Open(r) # {}
      <3>1. Conflict(q, "conflict")
        BY <1>1, <1>5, <2>2 DEF StoreRefusal
      <3>2. P!ConflictAnswer(q) = "conflict"
        BY <1>5, WriteIsPlanned DEF P!ResultStep, P!ConflictAnswer
      <3>3. P!Conflict(q, P!Refusal(q))
        BY <1>2, <1>3, <1>5, <3>1, <3>2 DEF P!Refusal
      <3> QED
        BY <1>1, <1>3, <1>5, <3>3 DEF P!StoreRefuses, P!Writing
    <2> QED
      BY <1>1, <2>1, <2>2
  <1>6. CASE req[q].pc = "complete_proposal" /\ VersionMatches(q)
    <2>1. /\ req[q].call \notin Open(r)
          /\ Conflict(q, IF Open(r) = {} THEN "not_found" ELSE "conflict")
      BY <1>1, <1>6 DEF StoreConflict, StoreRefusal
    <2>2. P!Open(r) = Open(r)
      <3>1. req[q].pc \in P!Writing /\ P!VersionMatches(q)
        BY <1>3, <1>6 DEF P!Writing
      <3>2. /\ r \in RunIds /\ runs[r] = req[q].snap
            /\ req[q].snap.status \notin Terminal
        BY <3>1, P!CommitIsCurrent, SameData, StepsAssumption, WorkspaceAssumption,
           ToolsAssumption, CallRequestsAssumption, MaxVersionAssumption,
           FaultsAssumption, NoneAssumption DEF MemInv
      <3> QED
        BY <3>2, LiveRun DEF Ended, MemInv
    <2>3. P!Conflict(q, P!Refusal(q))
      BY <1>2, <1>3, <1>6, <2>1, <2>2 DEF P!Refusal
    <2> QED
      BY <1>1, <1>6, <2>1, <2>2, <2>3 DEF P!StoreRefuses, P!CanComplete
  <1> QED
    BY <1>4, <1>5, <1>6

\* A new run has no proposals.
LEMMA SameCreate ==
    ASSUME MemInv, NEW r \in RunIds, CreateAgentRun(r)
    PROVE  /\ P!CreateAgentRun(r) /\ UNCHANGED <<proposals, results>>
           /\ \A x \in RunIds : Ended(x)' = Ended(x)
           /\ \A x \in RunIds : Ended(x) => runs'[x] = runs[x]
  <1>1. PICK n \in 1 .. MAX_AGENT_STEPS, w \in Workspaces :
           runs' = [runs EXCEPT ![r] = NewRun(n, w)]
    BY DEF CreateAgentRun
  <1>2. runs[r] = None /\ UNCHANGED <<proposals, results, issued, req, mail>>
    BY DEF CreateAgentRun
  <1>3. /\ runs'[r] = NewRun(n, w)
        /\ \A x \in RunIds \ {r} : runs'[x] = runs[x]
    BY <1>1 DEF MemInv, TypeOK
  <1>4. NewRun(n, w).status = "received"
    BY DEF NewRun
  <1>5. \A x \in RunIds : /\ Ended(x)' = Ended(x)
                          /\ Ended(x) => runs'[x] = runs[x]
    BY <1>2, <1>3, <1>4 DEF Ended, Terminal
  <1>6. ASSUME NEW c \in CallIds PROVE ClosedWithRun'[c] = ClosedWithRun[c]
    <2>1. CASE proposals[c] = None
      BY <1>2, <2>1 DEF ClosedWithRun
    <2>2. CASE proposals[c] # None
      <3>1. proposals[c].run \in RunIds
        BY <2>2, Rows DEF MemInv, ProposalRow
      <3>2. \A x : x = proposals[c].run => Ended(x)' = Ended(x)
        BY <1>5, <3>1
      <3> QED
        BY <1>2, <3>2 DEF ClosedWithRun
    <2> QED
      BY <2>1, <2>2
  <1>7. ClosedWithRun' = ClosedWithRun
    BY <1>6 DEF ClosedWithRun
  <1>8. P!CreateAgentRun(r)
    BY <1>1, <1>2, <1>7 DEF P!CreateAgentRun, P!NewRun, NewRun
  <1> QED
    BY <1>2, <1>5, <1>8

--------------------------------------------------------------------------------
(***************************************************************************)
(* Every step                                                              *)
(***************************************************************************)

\* A step that leaves the tables alone keeps what concerns them alone.
LEMMA TablesStay ==
    ASSUME MemInv, UNCHANGED <<proposals, results>>,
           \A x \in RunIds : Ended(x)' = Ended(x),
           \A x \in RunIds : Ended(x) => runs'[x] = runs[x]
    PROVE  /\ proposals' \in [CallIds -> ProposalRow \cup {None}]
           /\ RejectedStaysActive' /\ ResultsAreAuthorised'
           /\ \A c \in CallIds : RowIsFinal(c)
  <1>1. RejectedStaysActive'
    <2>1. \A x \in RunIds : Open(x)' = Open(x)
      BY DEF Open
    <2> QED
      BY <2>1 DEF MemInv, RejectedStaysActive
  <1> QED
    BY <1>1 DEF MemInv, TypeOK, ResultsAreAuthorised, Authorised, RowIsFinal

\* Every step is one of PostgreSQL's, or answers otherwise, and keeps the rows,
\* decided ones unchanged.
LEMMA SameStep ==
    ASSUME MemInv, [MemoryNext]_vars
    PROVE  /\ [P!Next \/ AnswersOtherwise]_(P!vars)
           /\ proposals' \in [CallIds -> ProposalRow \cup {None}]
           /\ RejectedStaysActive' /\ ResultsAreAuthorised'
           /\ \A c \in CallIds : RowIsFinal(c)
  <1>1. CASE UNCHANGED vars
    <2>1. ClosedWithRun' = ClosedWithRun /\ \A x \in RunIds : Ended(x)' = Ended(x)
      BY <1>1, RowsStay DEF vars, Ended
    <2> QED
      BY <1>1, <2>1, TablesStay DEF vars, P!vars
  <1>2. ASSUME NEW r \in RunIds, CreateAgentRun(r)
        PROVE  /\ P!Next
               /\ proposals' \in [CallIds -> ProposalRow \cup {None}]
               /\ RejectedStaysActive' /\ ResultsAreAuthorised'
               /\ \A c \in CallIds : RowIsFinal(c)
    BY <1>2, SameCreate, TablesStay DEF P!Next
  <1>3. ASSUME NEW q \in Requests,
               Receive(q) \/ MemoryHandlerStep(q) \/ Abort(q) \/ Respond(q)
        PROVE  /\ P!Next \/ AnswersOtherwise
               /\ proposals' \in [CallIds -> ProposalRow \cup {None}]
               /\ RejectedStaysActive' /\ ResultsAreAuthorised'
               /\ \A c \in CallIds : RowIsFinal(c)
    <2>1. CASE Receive(q) \/ BesideStore(q) \/ StoreConflict(q)
      <3>1. (P!Next \/ AnswersOtherwise) /\ UNCHANGED tables
        BY <2>1, SameReceive, SameBesideStore, SameConflict
        DEF P!Next, P!HandlerStep, AnswersOtherwise
      <3>2. \A x \in RunIds : Ended(x)' = Ended(x)
        BY <3>1 DEF tables, Ended
      <3> QED
        BY <3>1, <3>2, TablesStay DEF tables
    <2>2. CASE \/ StoreUpdate(q) \/ StoreCancelRun(q) \/ StoreUpdateProposal(q)
               \/ StoreCompleteProposal(q)
      BY <2>2, SameUpdate, SameCancel, SameProposal, SameResult
      DEF P!Next, P!HandlerStep, Writes
    <2> QED
      BY <1>3, <2>1, <2>2 DEF MemoryHandlerStep, BesideStore
  <1> QED
    BY <1>1, <1>2, <1>3 DEF MemoryNext

LEMMA NextMemInv == MemInv /\ [MemoryNext]_vars => MemInv'
  <1> SUFFICES ASSUME MemInv, [MemoryNext]_vars PROVE MemInv'
    OBVIOUS
  <1>1. P!IndInv'
    BY SameStep, PostgresKeeps DEF MemInv
  <1>2. TypeOK'
    BY <1>1, SameStep, SameData DEF P!IndInv, P!TypeOK, TypeOK
  <1> QED
    BY <1>1, <1>2, SameStep DEF MemInv

LEMMA InitMemInv == Init => MemInv /\ P!Init
  <1> SUFFICES ASSUME Init PROVE MemInv /\ P!Init
    OBVIOUS
  <1>1. ClosedWithRun = [c \in CallIds |-> None]
    BY DEF Init, ClosedWithRun
  <1>2. P!Init
    BY <1>1 DEF Init, P!Init, Idle, P!Idle
  <1>3. P!IndInv
    BY <1>2, P!InitIndInv, SameData, StepsAssumption, WorkspaceAssumption, ToolsAssumption,
       CallRequestsAssumption, MaxVersionAssumption, FaultsAssumption, NoneAssumption
  <1>4. TypeOK
    BY <1>3, SameData DEF P!IndInv, P!TypeOK, TypeOK, Init
  <1>5. RejectedStaysActive /\ ResultsAreAuthorised
    BY DEF Init, RejectedStaysActive, Ended, ResultsAreAuthorised
  <1> QED
    BY <1>2, <1>3, <1>4, <1>5 DEF MemInv

LEMMA MemoryInvariance == MemorySpec => []MemInv
  BY InitMemInv, NextMemInv, PTL DEF MemorySpec

--------------------------------------------------------------------------------
(***************************************************************************)
(* The theorems                                                            *)
(***************************************************************************)

\* AgentApiProofs extends AgentApi: its instance and that of AgentApi itself
\* have the same initial states and steps, definition by definition.
LEMMA SameSpec ==
    /\ P!Init => Postgres!Init
    /\ [P!Next \/ AnswersOtherwise]_(P!vars) =>
          [Postgres!Next \/ AnswersOtherwise]_(Postgres!vars)
  BY DEF
     Postgres!AgentStatus, P!AgentStatus, Postgres!Terminal, P!Terminal,
     Postgres!ToolRisk, P!ToolRisk, Postgres!ToolPolicyDecision,
     P!ToolPolicyDecision, Postgres!ApprovalDecision, P!ApprovalDecision,
     Postgres!AgentRun, P!AgentRun, Postgres!NewRun, P!NewRun,
     Postgres!AllowedTransitions, P!AllowedTransitions,
     Postgres!StepLimitReached, P!StepLimitReached, Postgres!CanTransition,
     P!CanTransition, Postgres!TransitionTo, P!TransitionTo,
     Postgres!IsAuthorized, P!IsAuthorized, Postgres!PathKind, P!PathKind,
     Postgres!ToolCall, P!ToolCall, Postgres!Evaluate, P!Evaluate, Postgres!Proposal,
     P!Proposal, Postgres!CanRequestClarification,
     P!CanRequestClarification, Postgres!CanBeginPlanning,
     P!CanBeginPlanning, Postgres!CanContinuePlanning,
     P!CanContinuePlanning, Postgres!CanPrepareRun, P!CanPrepareRun,
     Postgres!PrepareRun, P!PrepareRun, Postgres!ProposedStatus,
     P!ProposedStatus, Postgres!CanProposeTool, P!CanProposeTool,
     Postgres!ProposedRun, P!ProposedRun, Postgres!NewProposal,
     P!NewProposal, Postgres!ResolvedStatus, P!ResolvedStatus,
     Postgres!HasPendingApproval, P!HasPendingApproval,
     Postgres!CanResolveApproval, P!CanResolveApproval,
     Postgres!CanRecordExecutionResult, P!CanRecordExecutionResult,
     Postgres!ResultStatus, P!ResultStatus, Postgres!CanCompleteRun,
     P!CanCompleteRun, Postgres!CanFailRun, P!CanFailRun,
     Postgres!CanCancelRun, P!CanCancelRun, Postgres!ProposalRow,
     P!ProposalRow, Postgres!vars, P!vars, Postgres!Operation, P!Operation,
     Postgres!Response, P!Response, Postgres!ConflictAnswer, P!ConflictAnswer,
     Postgres!Refusal, P!Refusal, Postgres!GetActiveAgentTool,
     P!GetActiveAgentTool,
     Postgres!Writing, P!Writing, Postgres!Planning, P!Planning,
     Postgres!Pending, P!Pending, Postgres!Request, P!Request,
     Postgres!Idle, P!Idle, Postgres!Init, P!Init, Postgres!tables,
     P!tables, Postgres!Open, P!Open, Postgres!Suspended, P!Suspended,
     Postgres!Answer, P!Answer, Postgres!Answered, P!Answered,
     Postgres!Await, P!Await, Postgres!Receives, P!Receives,
     Postgres!CreateAgentRun, P!CreateAgentRun, Postgres!CancelAgentRun,
     P!CancelAgentRun, Postgres!BeginAgentPlanning, P!BeginAgentPlanning,
     Postgres!PlanNextAgentStep, P!PlanNextAgentStep,
     Postgres!ProposeAgentTool, P!ProposeAgentTool,
     Postgres!ResolveAgentToolApproval, P!ResolveAgentToolApproval,
     Postgres!SubmitAgentToolResult, P!SubmitAgentToolResult,
     Postgres!RemainingSteps, P!RemainingSteps, Postgres!FailPlanningRun,
     P!FailPlanningRun, Postgres!PlannerFails, P!PlannerFails,
     Postgres!PlannerRepairs, P!PlannerRepairs, Postgres!PlannerRaises,
     P!PlannerRaises, Postgres!PlannerDecides, P!PlannerDecides,
     Postgres!ParsedTool, P!ParsedTool, Postgres!ValidArguments,
     P!ValidArguments, Postgres!Denied, P!Denied, Postgres!DecisionFails,
     P!DecisionFails, Postgres!PlannerProposesTool, P!PlannerProposesTool,
     Postgres!VersionMatches, P!VersionMatches, Postgres!StoreRun,
     P!StoreRun, Postgres!Continue, P!Continue, Postgres!Outcome, P!Outcome,
     Postgres!Conflict, P!Conflict, Postgres!Update, P!Update,
     Postgres!WithoutOpen, P!WithoutOpen, Postgres!CancelRun, P!CancelRun,
     Postgres!CanUpsert, P!CanUpsert, Postgres!UpdateProposal,
     P!UpdateProposal, Postgres!CanComplete, P!CanComplete,
     Postgres!CompleteProposal, P!CompleteProposal, Postgres!StoreRefuses,
     P!StoreRefuses, Postgres!Event, P!Event, Postgres!Notify, P!Notify,
     Postgres!Abort, P!Abort, Postgres!Respond, P!Respond,
     Postgres!HandlerStep, P!HandlerStep, Postgres!Receive, P!Receive,
     Postgres!Next, P!Next

\* The memory's store implements PostgreSQL's (InMemoryAgentRunStore and
\* PostgresAgentRunStore behind the same handlers): with the proposals of ended
\* runs taken as closed, every step is one over the tables, with the same answer,
\* or one of the two that change nothing and are answered otherwise: a request
\* about a rejected proposal (404 in PostgreSQL) and a late result (409).
THEOREM StoreRefinement == MemorySpec => StoreImplementsPostgres
  <1>1. MemorySpec => P!Init /\ [][P!Next \/ AnswersOtherwise]_(P!vars)
    BY MemoryInvariance, InitMemInv, SameStep, PTL DEF MemorySpec
  <1> QED
    BY <1>1, SameSpec, PTL DEF StoreImplementsPostgres

\* _proposals holds at most one proposal per run, and it fits the run's status,
\* but for the rejected one that cancelled its run (update_proposal).
THEOREM ActiveProposalSafety == MemorySpec => []ActiveProposalFits
  <1>1. ASSUME MemInv PROVE ActiveProposalFits
    <2> SUFFICES ASSUME NEW r \in RunIds, ~OpenFitsStatus(r)
                 PROVE  /\ runs[r] # None /\ runs[r].status = "cancelled"
                        /\ \E c \in CallIds :
                              /\ Open(r) = {c}
                              /\ proposals[c].proposal.approval = "rejected"
      BY DEF ActiveProposalFits
    <2>1. Ended(r)
      BY <1>1, LiveFits
    <2>2. Open(r) # {}
      BY <2>1 DEF OpenFitsStatus, Ended, Terminal
    <2> QED
      BY <1>1, <2>1, <2>2 DEF MemInv, RejectedStaysActive, Ended
  <1> QED
    BY <1>1, MemoryInvariance, PTL

\* No result is stored in memory for a call the policy did not allow or whose
\* approval was not given (complete_proposal, which reads no approval itself).
THEOREM MemoryAuthorisation == MemorySpec => []ResultsAreAuthorised
  BY MemoryInvariance, PTL DEF MemInv

\* The history of a call is final: a decided proposal is not decided again and a
\* result is not replaced, without any index that would refuse it.
THEOREM MemoryAudit == MemorySpec => AuditIsFinal
  <1>1. MemInv /\ [MemoryNext]_vars => [\A c \in CallIds : RowIsFinal(c)]_vars
    BY SameStep
  <1>2. MemorySpec => [][\A c \in CallIds : RowIsFinal(c)]_vars
    BY <1>1, MemoryInvariance, PTL DEF MemorySpec
  <1> QED
    BY <1>2 DEF AuditIsFinal, RowIsFinal

================================================================================
