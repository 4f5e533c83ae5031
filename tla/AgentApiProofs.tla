----------------------------- MODULE AgentApiProofs -----------------------------
(***************************************************************************)
(* Proofs about AgentApi for every number of runs, calls and requests.     *)
(***************************************************************************)
EXTENDS AgentApi, FiniteSetTheorems, TLAPS

\* The two planner calls are told apart by name only.
USE DEF Planning

--------------------------------------------------------------------------------
(***************************************************************************)
(* The pure operations                                                     *)
(***************************************************************************)

\* transition_to yields a valid run, one version later, and counts a step
\* exactly when it enters executing.
LEMMA TransitionToRun ==
    ASSUME NEW run \in AgentRun, NEW s \in AgentStatus,
           s = "executing" => ~StepLimitReached(run)
    PROVE  /\ TransitionTo(run, s) \in AgentRun
           /\ TransitionTo(run, s).version = run.version + 1
           /\ TransitionTo(run, s).status = s
  <1>1. /\ run.step_count \in Nat /\ run.max_steps \in 1 .. MAX_AGENT_STEPS
        /\ run.step_count <= run.max_steps
        /\ run.version \in Nat /\ run.workspace \in Workspaces
    BY StepsAssumption DEF AgentRun
  <1> QED
    BY <1>1, StepsAssumption DEF TransitionTo, AgentRun, StepLimitReached

\* DefaultToolPolicy.evaluate lets only registered tools pass, under their
\* registered risk: reads without approval and writes with one.
LEMMA PolicyGatesWrites ==
    ASSUME NEW call \in ToolCall, NEW w
    PROVE  /\ Evaluate(call, w) \in ToolPolicyDecision
           /\ Evaluate(call, w) # "deny" =>
                 call.name \in Tools /\ call.risk = RegisteredRisk[call.name]
           /\ Evaluate(call, w) = "allow" => call.risk = "read"
           /\ Evaluate(call, w) = "require_approval" => call.risk = "write"
  BY DEF Evaluate, ToolCall, ToolRisk, ToolPolicyDecision

\* A proposal for a requested call, a denied one included, is well formed.
LEMMA NewProposalType ==
    ASSUME NEW run, NEW call \in CallRequests
    PROVE  NewProposal(run, call) \in Proposal
  <1>1. call \in ToolCall
    BY CallRequestsAssumption
  <1>2. Evaluate(call, run.workspace) \in ToolPolicyDecision
    BY <1>1, PolicyGatesWrites
  <1> QED
    BY <1>1, <1>2 DEF NewProposal, Proposal, ToolCall, ApprovalDecision

\* propose_tool on a planning run: the proposal is well formed, the run waits
\* exactly for a pending write and executes exactly for an allowed read.
LEMMA ProposeTool ==
    ASSUME NEW run \in AgentRun, NEW call \in CallRequests,
           CanProposeTool(run, call), Evaluate(call, run.workspace) # "deny"
    PROVE  /\ run.status = "planning"
           /\ ProposedRun(run, call) \in AgentRun
           /\ ProposedRun(run, call).version = run.version + 1
           /\ NewProposal(run, call) \in Proposal
           /\ Registered(NewProposal(run, call))
           /\ \/ /\ ProposedRun(run, call).status = "awaiting_approval"
                 /\ NewProposal(run, call).policy = "require_approval"
                 /\ NewProposal(run, call).approval = "pending"
              \/ /\ ProposedRun(run, call).status = "executing"
                 /\ Authorised(NewProposal(run, call))
                 /\ NewProposal(run, call).approval # "pending"
  <1> DEFINE d == Evaluate(call, run.workspace)
  <1>1. call \in ToolCall
    BY CallRequestsAssumption
  <1>2. /\ d \in {"allow", "require_approval"}
        /\ call.name \in Tools /\ call.risk = RegisteredRisk[call.name]
        /\ d = "allow" => call.risk = "read"
    BY <1>1, PolicyGatesWrites DEF ToolPolicyDecision
  <1>3. /\ run.status = "planning"
        /\ CanTransition(run, ProposedStatus(d))
        /\ ProposedRun(run, call) = TransitionTo(run, ProposedStatus(d))
        /\ ProposedStatus(d) \in AgentStatus
    BY <1>2 DEF CanProposeTool, ProposedRun, ProposedStatus, AgentStatus
  <1>4. /\ ProposedRun(run, call) \in AgentRun
        /\ ProposedRun(run, call).version = run.version + 1
        /\ ProposedRun(run, call).status = ProposedStatus(d)
    BY <1>3, TransitionToRun DEF CanTransition
  <1>5. NewProposal(run, call) \in Proposal
    BY NewProposalType
  <1> QED
    BY <1>2, <1>3, <1>4, <1>5 DEF NewProposal, ProposedStatus, Authorised, Registered

--------------------------------------------------------------------------------
(***************************************************************************)
(* The inductive invariant                                                 *)
(***************************************************************************)

\* No two handlers hold the same new tool call, and a call with a proposal
\* has been issued.
CallsAreUnique ==
    /\ \A c \in CallIds : proposals[c] # None => c \in issued
    /\ \A q1, q2 \in Requests :
          /\ req[q1].pc = "update_proposal" /\ req[q1].op \in {"tools", "next"}
          /\ req[q2].pc = "update_proposal" /\ req[q2].op \in {"tools", "next"}
          /\ req[q1].call = req[q2].call
          => q1 = q2

\* A handler that is about to notify has committed what it reports.
HandlerNotifies(h) ==
    h.pc = "notify" =>
       /\ h.run \in RunIds /\ h.next \in AgentRun
       /\ \/ h.next.status = "awaiting_approval" /\ h.call \in CallIds
          \/ /\ h.next.status \in {"completed", "failed"}
             /\ runs[h.run] # None /\ runs[h.run].status = h.next.status

NotificationsFollowCommit == \A q \in Requests : HandlerNotifies(req[q])

IndInv == /\ TypeOK
          /\ PendingWritesAreCurrent
          /\ CallsAreUnique
          /\ NotificationsFollowCommit
          /\ OpenProposalFollowsStatus
          /\ ResultsAreAuthorised
          /\ MailIsTruthful

\* What every pending write has in common: it stores a valid run, one version
\* later, over a run that was not terminal when it was read.
LEMMA PendingWrite ==
    ASSUME IndInv, NEW q \in Requests, req[q].pc \in Writing
    PROVE  /\ req[q].run \in RunIds
           /\ ReadFrom(req[q].snap, req[q].run)
           /\ req[q].snap.status \notin Terminal
           /\ req[q].next \in AgentRun
           /\ req[q].next.version = req[q].snap.version + 1
           /\ req[q].pc \in {"update_proposal", "complete_proposal"}
              => req[q].call \in CallIds
           /\ req[q].pc = "update_proposal" => req[q].proposal \in Proposal
  <1> DEFINE h == req[q]
  <1>1. /\ h.run \in RunIds /\ ReadFrom(h.snap, h.run) /\ h.snap \in AgentRun
        /\ HandlerIsCurrent(h)
    BY DEF IndInv, PendingWritesAreCurrent, HandlerIsCurrent, ReadFrom
  <1>2. CASE h.pc = "update"
    <2>1. PICK s \in {"planning", "clarifying", "completed", "failed"} :
             /\ h.next = TransitionTo(h.snap, s)
             /\ h.snap.status \in {"received", "clarifying", "observing", "planning"}
      BY <1>1, <1>2 DEF HandlerIsCurrent, UpdateStep
    <2> QED
      BY <1>1, <1>2, <2>1, TransitionToRun DEF AgentStatus, Terminal
  <1>3. CASE h.pc = "cancel_run"
    <2>1. h.next = TransitionTo(h.snap, "cancelled") /\ h.snap.status \notin Terminal
      BY <1>1, <1>3 DEF HandlerIsCurrent, CancelStep, CanCancelRun
    <2> QED
      BY <1>1, <1>3, <2>1, TransitionToRun DEF AgentStatus
  <1>4. CASE h.pc = "update_proposal" /\ ProposeStep(h)
    <2>1. PICK call \in CallRequests :
             /\ CanProposeTool(h.snap, call)
             /\ Evaluate(call, h.snap.workspace) # "deny"
             /\ h.next = ProposedRun(h.snap, call)
             /\ h.proposal = NewProposal(h.snap, call)
      BY <1>4 DEF ProposeStep
    <2>2. h.call \in CallIds
      BY <1>4 DEF ProposeStep, IndInv, TypeOK
    <2> QED
      BY <1>1, <1>4, <2>1, <2>2, ProposeTool DEF Terminal
  <1>5. CASE h.pc = "update_proposal" /\ ResolveStep(h)
    <2>1. PICK p \in Proposal, d \in {"approved", "rejected"} :
             /\ CanResolveApproval(h.snap, p, d)
             /\ h.next = TransitionTo(h.snap, ResolvedStatus(d))
             /\ h.proposal = [p EXCEPT !.approval = d]
      BY <1>5 DEF ResolveStep
    <2>2. /\ h.snap.status = "awaiting_approval"
          /\ CanTransition(h.snap, ResolvedStatus(d))
          /\ ResolvedStatus(d) \in AgentStatus
      BY <2>1 DEF CanResolveApproval, HasPendingApproval, ResolvedStatus, AgentStatus
    <2>3. h.proposal \in Proposal
      BY <2>1 DEF Proposal, ApprovalDecision
    <2> QED
      BY <1>1, <1>5, <2>1, <2>2, <2>3, TransitionToRun
      DEF Terminal, CanTransition, ResolveStep
  <1>6. CASE h.pc = "complete_proposal"
    <2>1. PICK s \in {"observing", "failed"} : h.next = TransitionTo(h.snap, s)
      BY <1>1, <1>6 DEF HandlerIsCurrent, ResultStep, ResultStatus
    <2>2. h.snap.status = "executing" /\ h.call \in CallIds
      BY <1>1, <1>6 DEF HandlerIsCurrent, ResultStep, CanRecordExecutionResult
    <2> QED
      BY <1>1, <1>6, <2>1, <2>2, TransitionToRun DEF AgentStatus, Terminal
  <1> QED
    BY <1>1, <1>2, <1>3, <1>4, <1>5, <1>6 DEF Writing, HandlerIsCurrent

--------------------------------------------------------------------------------
(***************************************************************************)
(* Steps that leave the tables alone                                       *)
(***************************************************************************)

\* A handler that does not move, over tables that do not change, stays
\* current.
LEMMA FrameHandler ==
    ASSUME NEW q \in Requests, HandlerIsCurrent(req[q]), HandlerNotifies(req[q]),
           UNCHANGED tables, issued \subseteq issued', req'[q] = req[q]
    PROVE  HandlerIsCurrent(req[q])' /\ HandlerNotifies(req[q])'
  BY DEF HandlerIsCurrent, HandlerNotifies, tables, ReadFrom, UpdateStep, CancelStep,
         ProposeStep, ResolveStep, ResultStep, Open

\* A step of handler q alone preserves the invariant if it leaves q current.
LEMMA LocalStep ==
    ASSUME IndInv, NEW q \in Requests, UNCHANGED tables,
           issued \subseteq issued', issued' \subseteq CallIds,
           \/ mail' = mail
           \/ req[q].pc = "notify" /\ mail' = mail \cup {Event(q)},
           req' \in [Requests -> Request],
           \A q2 \in Requests \ {q} : req'[q2] = req[q2],
           HandlerIsCurrent(req[q])', HandlerNotifies(req[q])',
           req'[q].pc = "update_proposal" /\ req'[q].op \in {"tools", "next"}
              => req'[q].call \notin issued
    PROVE  IndInv'
  <1>1. \A q2 \in Requests : HandlerIsCurrent(req[q2])' /\ HandlerNotifies(req[q2])'
    <2> SUFFICES ASSUME NEW q2 \in Requests, q2 # q
                 PROVE  HandlerIsCurrent(req[q2])' /\ HandlerNotifies(req[q2])'
      OBVIOUS
    <2> QED
      BY FrameHandler DEF IndInv, PendingWritesAreCurrent, NotificationsFollowCommit
  <1>2. TypeOK'
    <2>1. mail' \subseteq ({"approval_required"} \X CallIds)
                         \cup ({"completed", "failed"} \X RunIds)
      BY DEF IndInv, TypeOK, NotificationsFollowCommit, HandlerNotifies, Event
    <2> QED
      BY <2>1 DEF IndInv, TypeOK, tables
  <1>3. CallsAreUnique'
    <2>1. ASSUME NEW q2 \in Requests, req[q2].pc = "update_proposal",
                 req[q2].op \in {"tools", "next"}
          PROVE  req[q2].call \in issued
      BY <2>1 DEF IndInv, PendingWritesAreCurrent, HandlerIsCurrent, ProposeStep,
                  ResolveStep
    <2> QED
      BY <2>1 DEF IndInv, CallsAreUnique, tables
  <1>4. MailIsTruthful'
    <2> SUFFICES ASSUME NEW r \in RunIds, NEW e \in {"completed", "failed"},
                        <<e, r>> \in mail'
                 PROVE  runs[r] # None /\ runs[r].status = e
      BY DEF MailIsTruthful, tables
    <2>1. CASE <<e, r>> \in mail
      BY <2>1 DEF IndInv, MailIsTruthful
    <2>2. CASE req[q].pc = "notify" /\ Event(q) = <<e, r>>
      <3>1. HandlerNotifies(req[q])
        BY DEF IndInv, NotificationsFollowCommit
      <3>2. /\ req[q].next.status # "awaiting_approval"
            /\ req[q].next.status = e /\ req[q].run = r
        BY <2>2 DEF Event
      <3> QED
        BY <2>2, <3>1, <3>2 DEF HandlerNotifies
    <2> QED
      BY <2>1, <2>2
  <1>5. OpenProposalFollowsStatus' /\ ResultsAreAuthorised'
    BY DEF IndInv, OpenProposalFollowsStatus, OpenFitsStatus, ResultsAreAuthorised,
           Open, tables
  <1> QED
    BY <1>1, <1>2, <1>3, <1>4, <1>5
    DEF IndInv, PendingWritesAreCurrent, NotificationsFollowCommit

\* A handler that returns an answer, or is done with it.
LEMMA AnswerStep ==
    ASSUME IndInv, NEW q \in Requests, UNCHANGED <<tables, issued>>,
           \/ mail' = mail
           \/ req[q].pc = "notify" /\ mail' = mail \cup {Event(q)},
           NEW h \in Request, h.pc \in {"idle", "done"},
           req' = [req EXCEPT ![q] = h]
    PROVE  IndInv'
  <1>1. req'[q] = h /\ \A q2 \in Requests \ {q} : req'[q2] = req[q2]
    BY DEF IndInv, TypeOK
  <1>2. req' \in [Requests -> Request]
    BY DEF IndInv, TypeOK
  <1>3. issued \subseteq issued' /\ issued' \subseteq CallIds
    BY DEF IndInv, TypeOK
  <1>4. HandlerIsCurrent(req[q])' /\ HandlerNotifies(req[q])'
    BY <1>1 DEF HandlerIsCurrent, HandlerNotifies, Writing
  <1> QED
    BY <1>1, <1>2, <1>3, <1>4, LocalStep DEF tables

\* A handler that suspends with a current write or at the planner, without
\* issuing a tool call.
LEMMA SuspendStep ==
    ASSUME IndInv, NEW q \in Requests, UNCHANGED <<tables, issued, mail>>,
           NEW h \in Request, HandlerIsCurrent(h), h.pc # "notify",
           h.pc = "update_proposal" => h.op = "approval",
           req' = [req EXCEPT ![q] = h]
    PROVE  IndInv'
  <1>1. req'[q] = h /\ \A q2 \in Requests \ {q} : req'[q2] = req[q2]
    BY DEF IndInv, TypeOK
  <1>2. req' \in [Requests -> Request]
    BY DEF IndInv, TypeOK
  <1>3. issued \subseteq issued' /\ issued' \subseteq CallIds
    BY DEF IndInv, TypeOK
  <1>4. HandlerIsCurrent(req[q])' /\ HandlerNotifies(req[q])'
    BY <1>1 DEF HandlerIsCurrent, HandlerNotifies, tables, ReadFrom, UpdateStep,
                CancelStep, ProposeStep, ResolveStep, ResultStep, Open
  <1> QED
    BY <1>1, <1>2, <1>3, <1>4, LocalStep DEF tables

\* A handler that issues a tool call and suspends with its proposal.
LEMMA ProposeSuspends ==
    ASSUME IndInv, NEW q \in Requests, UNCHANGED <<tables, mail>>,
           NEW op \in {"tools", "next"}, NEW r \in RunIds,
           NEW run \in AgentRun, ReadFrom(run, r),
           NEW call \in CallRequests, CanProposeTool(run, call),
           Evaluate(call, run.workspace) # "deny",
           NEW c \in CallIds \ issued, issued' = issued \cup {c},
           req' = [req EXCEPT ![q] =
                      Suspended("update_proposal", op, r, run,
                                ProposedRun(run, call), c, NewProposal(run, call))]
    PROVE  IndInv'
  <1> DEFINE h == Suspended("update_proposal", op, r, run,
                            ProposedRun(run, call), c, NewProposal(run, call))
  <1>1. /\ ProposedRun(run, call) \in AgentRun
        /\ NewProposal(run, call) \in Proposal
    BY ProposeTool
  <1>2. h \in Request
    BY <1>1 DEF Suspended, Request, Operation, Pending, Writing
  <1>3. req'[q] = h /\ \A q2 \in Requests \ {q} : req'[q2] = req[q2]
    BY DEF IndInv, TypeOK
  <1>4. req' \in [Requests -> Request]
    BY <1>2 DEF IndInv, TypeOK
  <1>5. proposals'[c] = None
    BY DEF IndInv, CallsAreUnique, tables
  <1>6. HandlerIsCurrent(req[q])'
    <2>1. ReadFrom(run, r)'
      BY DEF ReadFrom, tables
    <2>2. /\ req'[q].pc = "update_proposal" /\ req'[q].op = op
          /\ req'[q].run = r /\ req'[q].snap = run /\ req'[q].call = c
          /\ req'[q].next = ProposedRun(run, call)
          /\ req'[q].proposal = NewProposal(run, call)
      BY <1>3 DEF Suspended
    <2>3. ProposeStep(req[q])'
      BY <2>2, <1>5 DEF ProposeStep
    <2> QED
      BY <2>1, <2>2, <2>3 DEF HandlerIsCurrent, Writing
  <1>7. HandlerNotifies(req[q])'
    BY <1>3 DEF HandlerNotifies, Suspended
  <1>8. issued' \subseteq CallIds
    BY DEF IndInv, TypeOK
  <1> QED
    BY <1>3, <1>4, <1>6, <1>7, <1>8, LocalStep DEF tables, Suspended

\* The run a handler reads is current, and an early return is an answer.
LEMMA Reading ==
    ASSUME IndInv, NEW q \in Requests, NEW r \in RunIds, Receives(q, r)
    PROVE  /\ runs[r] \in AgentRun
           /\ ReadFrom(runs[r], r)
           /\ \A op \in Operation, response \in Response :
                 Answer(op, r, response) \in Request
  <1>1. runs[r] \in AgentRun
    BY DEF IndInv, TypeOK, Receives
  <1>2. runs[r].version \in Nat
    BY <1>1 DEF AgentRun
  <1> QED
    BY <1>1, <1>2 DEF Receives, ReadFrom, Answer, Request

\* cancel_agent_run and begin_agent_planning suspend with a service step.
LEMMA CancelOrBegin ==
    ASSUME IndInv, NEW q \in Requests, NEW r \in RunIds,
           CancelAgentRun(q, r) \/ BeginAgentPlanning(q, r)
    PROVE  IndInv'
  <1>1. Receives(q, r)
    BY DEF CancelAgentRun, BeginAgentPlanning
  <1>2. UNCHANGED <<tables, issued, mail>>
    BY DEF CancelAgentRun, BeginAgentPlanning
  <1>3. CASE \E op \in Operation : Await(q, Answer(op, r, "conflict"))
    BY <1>1, <1>2, <1>3, Reading, AnswerStep DEF Await, Answer, Response
  <1>4. CASE /\ CanCancelRun(runs[r])
             /\ Await(q, Suspended("cancel_run", "cancel", r, runs[r],
                                   TransitionTo(runs[r], "cancelled"), None, None))
    <2> DEFINE h == Suspended("cancel_run", "cancel", r, runs[r],
                              TransitionTo(runs[r], "cancelled"), None, None)
    <2>1. TransitionTo(runs[r], "cancelled") \in AgentRun
      BY <1>1, Reading, TransitionToRun DEF AgentStatus
    <2>2. h \in Request
      BY <1>1, <2>1, Reading DEF Suspended, Request, Operation, Pending, Writing
    <2>3. HandlerIsCurrent(h)
      BY <1>1, <1>4, Reading DEF HandlerIsCurrent, CancelStep, Suspended
    <2> QED
      BY <1>2, <1>4, <2>2, <2>3, SuspendStep DEF Await, Suspended
  <1>5. CASE /\ CanBeginPlanning(runs[r])
             /\ Await(q, Suspended("update", "plan", r, runs[r],
                                   TransitionTo(runs[r], "planning"), None, None))
    <2> DEFINE h == Suspended("update", "plan", r, runs[r],
                              TransitionTo(runs[r], "planning"), None, None)
    <2>1. TransitionTo(runs[r], "planning") \in AgentRun
      BY <1>1, Reading, TransitionToRun DEF AgentStatus
    <2>2. h \in Request
      BY <1>1, <2>1, Reading DEF Suspended, Request, Operation, Pending, Writing
    <2>3. HandlerIsCurrent(h)
      BY <1>1, <1>5, Reading DEF HandlerIsCurrent, UpdateStep, Suspended,
                                 CanBeginPlanning
    <2> QED
      BY <1>2, <1>5, <2>2, <2>3, SuspendStep DEF Await, Suspended
  <1> QED
    BY <1>3, <1>4, <1>5 DEF CancelAgentRun, BeginAgentPlanning, Operation

\* plan_next_agent_step suspends with the move to planning, or at the planner.
LEMMA NextReads ==
    ASSUME IndInv, NEW q \in Requests, NEW r \in RunIds, PlanNextAgentStep(q, r)
    PROVE  IndInv'
  <1>1. Receives(q, r) /\ UNCHANGED <<tables, issued, mail>>
    BY DEF PlanNextAgentStep
  <1>2. CASE Await(q, Answer("next", r, "conflict"))
    BY <1>1, <1>2, Reading, AnswerStep DEF Await, Answer, Operation, Response
  <1>3. CASE /\ runs[r].status = "planning"
             /\ Await(q, Suspended("planner", "next", r, runs[r], runs[r], None, None))
    <2> DEFINE h == Suspended("planner", "next", r, runs[r], runs[r], None, None)
    <2>1. h \in Request
      BY <1>1, Reading DEF Suspended, Request, Operation, Pending, Writing
    <2>2. HandlerIsCurrent(h)
      BY <1>1, <1>3, Reading DEF HandlerIsCurrent, Suspended, Writing
    <2> QED
      BY <1>1, <1>3, <2>1, <2>2, SuspendStep DEF Await, Suspended
  <1>4. CASE /\ runs[r].status \in {"received", "clarifying", "observing"}
             /\ Await(q, Suspended("update", "next", r, runs[r],
                                   TransitionTo(runs[r], "planning"), None, None))
    <2> DEFINE h == Suspended("update", "next", r, runs[r],
                              TransitionTo(runs[r], "planning"), None, None)
    <2>1. TransitionTo(runs[r], "planning") \in AgentRun
      BY <1>1, Reading, TransitionToRun DEF AgentStatus
    <2>2. h \in Request
      BY <1>1, <2>1, Reading DEF Suspended, Request, Operation, Pending, Writing
    <2>3. HandlerIsCurrent(h)
      BY <1>1, <1>4, Reading DEF HandlerIsCurrent, UpdateStep, Suspended
    <2> QED
      BY <1>1, <1>4, <2>2, <2>3, SuspendStep DEF Await, Suspended
  <1> QED
    BY <1>2, <1>3, <1>4 DEF PlanNextAgentStep, PrepareRun, CanPrepareRun,
                            CanBeginPlanning, CanContinuePlanning

\* propose_agent_tool answers, or issues a call and suspends.
LEMMA ToolsReads ==
    ASSUME IndInv, NEW q \in Requests, NEW r \in RunIds, ProposeAgentTool(q, r)
    PROVE  IndInv'
  <1>1. Receives(q, r) /\ UNCHANGED <<tables, mail>>
    BY DEF ProposeAgentTool
  <1>2. CASE /\ \E response \in Response :
                   Await(q, Answer("tools", r, response))
             /\ UNCHANGED issued
    BY <1>1, <1>2, Reading, AnswerStep DEF Await, Answer, Operation
  <1>3. CASE \E call \in CallRequests, c \in CallIds \ issued :
                /\ CanProposeTool(runs[r], call)
                /\ Evaluate(call, runs[r].workspace) # "deny"
                /\ issued' = issued \cup {c}
                /\ Await(q, Suspended("update_proposal", "tools", r, runs[r],
                                      ProposedRun(runs[r], call), c,
                                      NewProposal(runs[r], call)))
    BY <1>1, <1>3, Reading, ProposeSuspends DEF Await
  <1> QED
    BY <1>2, <1>3 DEF ProposeAgentTool, Response

\* resolve_agent_tool_approval suspends with a decision on the open proposal.
LEMMA ApprovalReads ==
    ASSUME IndInv, NEW q \in Requests, NEW r \in RunIds, NEW c \in CallIds,
           NEW d \in {"approved", "rejected"}, ResolveAgentToolApproval(q, r, c, d)
    PROVE  IndInv'
  <1> DEFINE p == proposals[c].proposal
             h == Suspended("update_proposal", "approval", r, runs[r],
                            TransitionTo(runs[r], ResolvedStatus(d)),
                            c, [p EXCEPT !.approval = d])
  <1>1. Receives(q, r) /\ UNCHANGED <<tables, issued, mail>>
    BY DEF ResolveAgentToolApproval
  <1>2. CASE \E response \in Response : Await(q, Answer("approval", r, response))
    BY <1>1, <1>2, Reading, AnswerStep DEF Await, Answer, Operation
  <1>3. CASE /\ c \in Open(r) /\ CanResolveApproval(runs[r], p, d)
             /\ Await(q, h)
    <2>1. proposals[c] # None /\ proposals[c].run = r /\ p \in Proposal
      BY <1>3 DEF Open, IndInv, TypeOK, ProposalRow
    <2>2. CanTransition(runs[r], ResolvedStatus(d)) /\ ResolvedStatus(d) \in AgentStatus
      BY <1>3 DEF CanResolveApproval, ResolvedStatus, AgentStatus
    <2>3. TransitionTo(runs[r], ResolvedStatus(d)) \in AgentRun
      BY <1>1, <2>2, Reading, TransitionToRun DEF CanTransition
    <2>4. [p EXCEPT !.approval = d] \in Proposal
      BY <2>1 DEF Proposal, ApprovalDecision
    <2>5. h \in Request
      BY <1>1, <2>3, <2>4, Reading DEF Suspended, Request, Operation, Pending, Writing
    <2>6. ResolveStep(h)
      BY <1>3, <2>1 DEF ResolveStep, Suspended
    <2>7. HandlerIsCurrent(h)
      BY <1>1, <2>6, Reading DEF HandlerIsCurrent, Suspended
    <2> QED
      BY <1>1, <1>3, <2>5, <2>7, SuspendStep DEF Await, Suspended
  <1> QED
    BY <1>2, <1>3 DEF ResolveAgentToolApproval, Response

\* submit_agent_tool_result suspends with the outcome of the execution.
LEMMA ResultReads ==
    ASSUME IndInv, NEW q \in Requests, NEW r \in RunIds, NEW c \in CallIds,
           NEW ok \in BOOLEAN, SubmitAgentToolResult(q, r, c, ok)
    PROVE  IndInv'
  <1> DEFINE h == Suspended("complete_proposal", "result", r, runs[r],
                            TransitionTo(runs[r], ResultStatus(ok)), c, None)
  <1>1. Receives(q, r) /\ UNCHANGED <<tables, issued, mail>>
    BY DEF SubmitAgentToolResult
  <1>2. CASE \E response \in Response : Await(q, Answer("result", r, response))
    BY <1>1, <1>2, Reading, AnswerStep DEF Await, Answer, Operation
  <1>3. CASE CanRecordExecutionResult(runs[r]) /\ Await(q, h)
    <2>1. TransitionTo(runs[r], ResultStatus(ok)) \in AgentRun
      BY <1>1, Reading, TransitionToRun DEF AgentStatus, ResultStatus
    <2>2. h \in Request
      BY <1>1, <2>1, Reading DEF Suspended, Request, Operation, Pending, Writing
    <2>3. HandlerIsCurrent(h)
      BY <1>1, <1>3, Reading DEF HandlerIsCurrent, ResultStep, Suspended
    <2> QED
      BY <1>1, <1>3, <2>2, <2>3, SuspendStep DEF Await, Suspended
  <1> QED
    BY <1>2, <1>3 DEF SubmitAgentToolResult, Response

\* get_active_agent_tool only answers.
LEMMA ActiveReads ==
    ASSUME IndInv, NEW q \in Requests, NEW r \in RunIds, GetActiveAgentTool(q, r)
    PROVE  IndInv'
  <1>1. Receives(q, r) /\ UNCHANGED <<tables, issued, mail>>
    BY DEF GetActiveAgentTool
  <1>2. \E response \in Response : Await(q, Answer("active", r, response))
    BY DEF GetActiveAgentTool, Response
  <1> QED
    BY <1>1, <1>2, Reading, AnswerStep DEF Await, Answer, Operation

\* The planner's decision is applied to the planned run the handler holds.
LEMMA PlannerReturns ==
    ASSUME IndInv, NEW q \in Requests,
           \/ PlannerFails(q) \/ DecisionFails(q)
           \/ \E s \in {"clarifying", "completed"} : PlannerDecides(q, s)
           \/ PlannerProposesTool(q)
    PROVE  IndInv'
  <1>1. req[q].pc \in Planning /\ UNCHANGED <<tables, mail>>
    BY DEF PlannerFails, DecisionFails, FailPlanningRun, PlannerDecides,
           PlannerProposesTool
  <1>2. /\ req[q].run \in RunIds /\ ReadFrom(req[q].next, req[q].run)
        /\ req[q].next \in AgentRun /\ req[q].next.status = "planning"
    BY <1>1 DEF IndInv, PendingWritesAreCurrent, HandlerIsCurrent, ReadFrom
  <1>3. CASE \E s \in {"clarifying", "completed", "failed"}, p \in Proposal \cup {None} :
                /\ UNCHANGED issued
                /\ Await(q, Suspended("update", "next", req[q].run, req[q].next,
                                      TransitionTo(req[q].next, s), None, p))
    <2>1. PICK s \in {"clarifying", "completed", "failed"}, p \in Proposal \cup {None} :
             /\ UNCHANGED issued
             /\ Await(q, Suspended("update", "next", req[q].run, req[q].next,
                                   TransitionTo(req[q].next, s), None, p))
      BY <1>3
    <2> DEFINE h == Suspended("update", "next", req[q].run, req[q].next,
                              TransitionTo(req[q].next, s), None, p)
    <2>2. TransitionTo(req[q].next, s) \in AgentRun
      BY <1>2, TransitionToRun DEF AgentStatus
    <2>3. h \in Request
      BY <1>2, <2>2 DEF Suspended, Request, Operation, Pending, Writing
    <2>4. HandlerIsCurrent(h)
      BY <1>2 DEF HandlerIsCurrent, UpdateStep, Suspended
    <2> QED
      BY <1>1, <2>1, <2>3, <2>4, SuspendStep DEF Await, Suspended
  <1>4. CASE PlannerProposesTool(q)
    <2>1. PICK call \in CallRequests, c \in CallIds \ issued :
             /\ CanProposeTool(req[q].next, call)
             /\ Evaluate(call, req[q].next.workspace) # "deny"
             /\ issued' = issued \cup {c}
             /\ req' = [req EXCEPT ![q] =
                          Suspended("update_proposal", "next", req[q].run,
                                    req[q].next, ProposedRun(req[q].next, call), c,
                                    NewProposal(req[q].next, call))]
      BY <1>4 DEF PlannerProposesTool, Await
    <2>2. "next" \in {"tools", "next"}
      OBVIOUS
    <2> QED
      BY <1>1, <1>2, <2>1, <2>2, ProposeSuspends
  <1>5. CASE PlannerFails(q) \/ \E s \in {"clarifying", "completed"} : PlannerDecides(q, s)
    BY <1>3, <1>5 DEF PlannerFails, FailPlanningRun, PlannerDecides
  <1>6. CASE DecisionFails(q)
    <2>1. PICK p \in Proposal \cup {None} : FailPlanningRun(q, p)
      BY <1>6, NewProposalType DEF DecisionFails
    <2> QED
      BY <1>3, <2>1 DEF FailPlanningRun
  <1> QED
    BY <1>4, <1>5, <1>6

\* A handler that asks for a repair keeps the run it plans for.
LEMMA RepairSuspends ==
    ASSUME IndInv, NEW q \in Requests, PlannerRepairs(q)
    PROVE  IndInv'
  <1> DEFINE h == [req[q] EXCEPT !.pc = "repair"]
  <1>1. req[q] \in Request /\ HandlerIsCurrent(req[q]) /\ req[q].pc = "planner"
    BY DEF IndInv, TypeOK, PendingWritesAreCurrent, PlannerRepairs
  <1>2. h \in Request /\ h.pc = "repair"
    BY <1>1 DEF Request, Pending
  <1>3. HandlerIsCurrent(h)
    BY <1>1, <1>2 DEF HandlerIsCurrent, Writing, Request
  <1> QED
    BY <1>2, <1>3, SuspendStep DEF PlannerRepairs, Await

\* A transaction that changes nothing does not answer with a success.
LEMMA RefusalIsAnswer ==
    ASSUME NEW q
    PROVE  Refusal(q) \in Response \ {"ok"}
  BY DEF Refusal, ConflictAnswer, Response

\* The steps that end a handler without a store write.
LEMMA HandlerEnds ==
    ASSUME IndInv, NEW q \in Requests,
           \/ PlannerRaises(q) \/ StoreRefuses(q) \/ Notify(q)
           \/ Abort(q) \/ Respond(q)
    PROVE  IndInv'
  <1>1. Idle \in Request /\ Idle.pc = "idle"
    BY DEF Idle, Request, Operation
  <1>2. \A response \in Response :
           Answered(q, response) \in Request /\ Answered(q, response).pc = "done"
    <2>1. req[q] \in Request
      BY DEF IndInv, TypeOK
    <2> QED
      BY <2>1 DEF Answered, Answer, Request
  <1>3. CASE Respond(q)
    BY <1>1, <1>3, AnswerStep DEF Respond, Await
  <1>4. CASE Notify(q)
    <2>1. Outcome(q) \in Response
      BY DEF Outcome, Response
    <2> QED
      BY <1>2, <1>4, <2>1, AnswerStep DEF Notify, Await
  <1>5. CASE PlannerRaises(q)
    BY <1>2, <1>5, AnswerStep DEF PlannerRaises, Await, Response
  <1>6. CASE StoreRefuses(q)
    BY <1>2, <1>6, RefusalIsAnswer, AnswerStep DEF StoreRefuses, Conflict, Await
  <1>7. CASE Abort(q)
    BY <1>2, <1>7, AnswerStep DEF Abort, Await, Response
  <1> QED
    BY <1>3, <1>4, <1>5, <1>6, <1>7

--------------------------------------------------------------------------------
(***************************************************************************)
(* Committed transactions                                                  *)
(***************************************************************************)

\* A transaction of q writes proposals of q's run only, and inserts a row
\* only for the new call of q.
WritesOwnRows(q) ==
    \A c \in CallIds :
       \/ proposals'[c] = proposals[c]
       \/ /\ proposals'[c] # None /\ proposals'[c].run = req[q].run
          /\ \/ proposals[c] # None /\ proposals[c].run = req[q].run
             \/ /\ proposals[c] = None /\ c = req[q].call
                /\ req[q].pc = "update_proposal" /\ req[q].op \in {"tools", "next"}

\* The statements every successful transaction has in common.
Commits(q) ==
    /\ req[q].pc \in Writing /\ VersionMatches(q)
    /\ StoreRun(q) /\ Continue(q) /\ UNCHANGED <<issued, mail>>
    /\ WritesOwnRows(q)

\* A transaction that passes the version check replaces the very run its
\* handler read, which is not terminal.
LEMMA CommitIsCurrent ==
    ASSUME IndInv, NEW q \in Requests, req[q].pc \in Writing, VersionMatches(q)
    PROVE  /\ req[q].run \in RunIds
           /\ runs[req[q].run] = req[q].snap /\ req[q].snap \in AgentRun
           /\ req[q].snap.status \notin Terminal
           /\ req[q].next \in AgentRun
           /\ req[q].next.version = req[q].snap.version + 1
  BY PendingWrite DEF VersionMatches, ReadFrom

\* The handlers and rows of other runs are not disturbed by a commit.
LEMMA CommitFrame ==
    ASSUME IndInv, NEW q \in Requests, Commits(q)
    PROVE  /\ runs' \in [RunIds -> AgentRun \cup {None}]
           /\ runs'[req[q].run] = req[q].next
           /\ \A r \in RunIds \ {req[q].run} :
                 /\ runs'[r] = runs[r]
                 /\ Open(r)' = Open(r)
                 /\ \A c \in Open(r) : proposals'[c] = proposals[c]
  <1>1. /\ runs' = [runs EXCEPT ![req[q].run] = req[q].next]
        /\ req[q].run \in RunIds /\ req[q].next \in AgentRun
        /\ runs \in [RunIds -> AgentRun \cup {None}]
    BY CommitIsCurrent DEF Commits, StoreRun, IndInv, TypeOK
  <1>2. ASSUME NEW r \in RunIds \ {req[q].run}, NEW c \in CallIds
        PROVE  /\ c \in Open(r)' <=> c \in Open(r)
               /\ c \in Open(r) => proposals'[c] = proposals[c]
    BY DEF Commits, WritesOwnRows, Open
  <1>3. \A r \in RunIds \ {req[q].run} : Open(r)' = Open(r)
    BY <1>2 DEF Open
  <1> QED
    BY <1>1, <1>2, <1>3 DEF Open

\* Handlers that hold a snapshot of the written run become stale, the others
\* are not affected.
LEMMA CommitOthers ==
    ASSUME IndInv, NEW q \in Requests, Commits(q),
           NEW q2 \in Requests, q2 # q
    PROVE  HandlerIsCurrent(req[q2])' /\ HandlerNotifies(req[q2])'
  <1> DEFINE h == req[q2]
             r == req[q].run
  <1>1. /\ HandlerIsCurrent(h) /\ HandlerNotifies(h)
        /\ h \in Request /\ req'[q2] = h
    BY DEF IndInv, TypeOK, PendingWritesAreCurrent, NotificationsFollowCommit,
           Commits, Continue, Await
  <1>2. /\ r \in RunIds /\ runs[r] = req[q].snap /\ runs[r].version \in Nat
        /\ runs'[r] = req[q].next /\ runs'[r] # None
        /\ runs'[r].version = runs[r].version + 1
        /\ runs[r].status \notin Terminal
    BY CommitIsCurrent, CommitFrame, NoneAssumption DEF Commits, AgentRun
  <1>3. ASSUME NEW run, ReadFrom(run, h.run), h.run \in RunIds
        PROVE  /\ ReadFrom(run, h.run)'
               /\ run.version = runs'[h.run].version
                  => h.run # r /\ run.version = runs[h.run].version
    <2>1. CASE h.run = r
      <3>1. run.version \in Nat /\ run.version <= runs[r].version /\ run \in AgentRun
        BY <1>3, <2>1 DEF ReadFrom, AgentRun
      <3>2. run.version < runs'[r].version
        BY <1>2, <3>1
      <3> QED
        BY <1>2, <2>1, <3>1, <3>2, <1>1 DEF ReadFrom
    <2>2. CASE h.run # r
      BY <1>1, <1>3, <2>2, CommitFrame DEF ReadFrom
    <2> QED
      BY <2>1, <2>2
  <1>4. ASSUME h.pc = "update_proposal", ProposeStep(h)
        PROVE  ProposeStep(h)'
    <2>1. h.call \in CallIds /\ h.call \in issued /\ proposals[h.call] = None
      BY <1>4 DEF ProposeStep, IndInv, TypeOK
    <2>2. proposals'[h.call] = None
      BY <1>4, <2>1 DEF ProposeStep, IndInv, CallsAreUnique, Commits, WritesOwnRows
    <2> QED
      BY <1>1, <1>4, <2>1, <2>2 DEF ProposeStep, Commits
  <1>5. ASSUME h.pc = "update_proposal", ResolveStep(h)
        PROVE  ResolveStep(h)'
    <2>1. /\ h.call \in CallIds /\ proposals[h.call] # None
          /\ proposals[h.call].run = h.run /\ h.op = "approval"
          /\ h.run \in RunIds /\ ReadFrom(h.snap, h.run)
      BY <1>1, <1>5 DEF ResolveStep, HandlerIsCurrent, Writing
    <2>2. proposals'[h.call] # None /\ proposals'[h.call].run = h.run
      BY <2>1 DEF Commits, WritesOwnRows
    <2>3. PICK p \in Proposal, d \in {"approved", "rejected"} :
             /\ CanResolveApproval(h.snap, p, d)
             /\ h.next = TransitionTo(h.snap, ResolvedStatus(d))
             /\ h.proposal = [p EXCEPT !.approval = d]
             /\ h.snap.version = runs[h.run].version
                => h.call \in Open(h.run) /\ proposals[h.call].proposal = p
      BY <1>5 DEF ResolveStep
    <2>4. h.snap.version = runs'[h.run].version
          => h.call \in Open(h.run)' /\ proposals'[h.call].proposal = p
      BY <1>1, <1>3, <2>1, <2>3, CommitFrame
    <2> QED
      BY <1>1, <2>1, <2>2, <2>3, <2>4 DEF ResolveStep
  <1>6. HandlerIsCurrent(h)'
    BY <1>1, <1>3, <1>4, <1>5
    DEF HandlerIsCurrent, UpdateStep, CancelStep, ResultStep, Writing
  <1>7. HandlerNotifies(h)'
    BY <1>1, <1>2, CommitFrame DEF HandlerNotifies, Terminal
  <1> QED
    BY <1>6, <1>7

\* After its transaction a handler calls the planner with the run it stored,
\* notifies what it stored, or answers.
LEMMA CommitContinues ==
    ASSUME IndInv, NEW q \in Requests, Commits(q)
    PROVE  /\ req' \in [Requests -> Request]
           /\ HandlerIsCurrent(req[q])' /\ HandlerNotifies(req[q])'
           /\ req'[q].pc # "update_proposal"
           /\ \A q2 \in Requests \ {q} : req'[q2] = req[q2]
  <1> DEFINE h == req[q]
  <1>1. /\ h \in Request /\ req \in [Requests -> Request] /\ h.pc \in Writing
        /\ HandlerIsCurrent(h) /\ h.run \in RunIds /\ h.next \in AgentRun
        /\ h.next.version \in Nat /\ runs'[h.run] = h.next /\ h.next # None
    BY CommitIsCurrent, CommitFrame, NoneAssumption
    DEF IndInv, TypeOK, PendingWritesAreCurrent, Commits, AgentRun
  <1>2. CASE /\ h.op = "next" /\ h.next.status = "planning"
             /\ Await(q, [h EXCEPT !.pc = "planner"])
    <2>1. [h EXCEPT !.pc = "planner"] \in Request
      BY <1>1 DEF Request, Pending
    <2>2. /\ req' \in [Requests -> Request]
          /\ \A q2 \in Requests \ {q} : req'[q2] = req[q2]
          /\ req'[q].pc = "planner" /\ req'[q].op = "next"
          /\ req'[q].run = h.run /\ req'[q].next = h.next
      BY <1>1, <1>2, <2>1 DEF Await, Request
    <2>3. ReadFrom(req[q].next, req[q].run)'
      BY <1>1, <2>2 DEF ReadFrom
    <2> QED
      BY <1>1, <1>2, <2>2, <2>3 DEF HandlerIsCurrent, HandlerNotifies, Writing
  <1>3. CASE /\ \/ h.op = "next" /\ h.next.status \in {"completed", "failed"}
                \/ h.op = "tools" /\ h.next.status = "awaiting_approval"
                \/ h.op = "result" /\ h.next.status = "failed"
             /\ Await(q, [h EXCEPT !.pc = "notify"])
    <2>1. [h EXCEPT !.pc = "notify"] \in Request
      BY <1>1 DEF Request, Pending
    <2>2. /\ req' \in [Requests -> Request]
          /\ \A q2 \in Requests \ {q} : req'[q2] = req[q2]
          /\ req'[q].pc = "notify" /\ req'[q].call = h.call
          /\ req'[q].run = h.run /\ req'[q].next = h.next
      BY <1>1, <1>3, <2>1 DEF Await, Request
    <2>3. h.op = "tools" => h.call \in CallIds
      BY <1>1, PendingWrite
      DEF HandlerIsCurrent, UpdateStep, CancelStep, ResultStep, Writing
    <2> QED
      BY <1>1, <1>3, <2>2, <2>3 DEF HandlerIsCurrent, HandlerNotifies, Writing
  <1>4. CASE Await(q, Answered(q, "ok"))
    <2>1. Answered(q, "ok") \in Request /\ Answered(q, "ok").pc = "done"
      BY <1>1 DEF Answered, Answer, Request, Response
    <2> QED
      BY <1>1, <1>4, <2>1 DEF Await, HandlerIsCurrent, HandlerNotifies, Writing
  <1> QED
    BY <1>2, <1>3, <1>4 DEF Commits, Continue

\* A commit preserves the invariant if it leaves the rows of its own run in
\* accordance with the run's new status and results with their proposals.
LEMMA CommitStep ==
    ASSUME IndInv, NEW q \in Requests, Commits(q),
           proposals' \in [CallIds -> ProposalRow \cup {None}],
           results' \in [CallIds -> {"none", "succeeded", "failed"}],
           NEW r, r = req[q].run, OpenFitsStatus(r)',
           ResultsAreAuthorised'
    PROVE  IndInv'
  <1>1. /\ req[q].run \in RunIds /\ runs[req[q].run] = req[q].snap
        /\ runs[req[q].run].status \notin Terminal
        /\ runs'[req[q].run] # None
    BY CommitIsCurrent, CommitFrame, NoneAssumption DEF Commits
  <1>2. TypeOK'
    BY CommitFrame, CommitContinues DEF IndInv, TypeOK, Commits
  <1>3. PendingWritesAreCurrent' /\ NotificationsFollowCommit'
    BY CommitContinues, CommitOthers
    DEF PendingWritesAreCurrent, NotificationsFollowCommit
  <1>4. CallsAreUnique'
    <2>1. ASSUME NEW c \in CallIds, proposals'[c] # None
          PROVE  c \in issued'
      <3>1. HandlerIsCurrent(req[q])
        BY DEF IndInv, PendingWritesAreCurrent
      <3>2. CASE proposals[c] # None
        BY <3>2 DEF IndInv, CallsAreUnique, Commits
      <3>3. CASE proposals[c] = None
        BY <2>1, <3>1, <3>3 DEF Commits, WritesOwnRows, HandlerIsCurrent, ProposeStep,
                                ResolveStep
      <3> QED
        BY <3>2, <3>3
    <2> QED
      BY <2>1, CommitContinues DEF IndInv, CallsAreUnique
  <1>5. MailIsTruthful'
    <2> SUFFICES ASSUME NEW x \in RunIds, NEW e \in {"completed", "failed"},
                        <<e, x>> \in mail'
                 PROVE  runs'[x] # None /\ runs'[x].status = e
      BY DEF MailIsTruthful
    <2>1. runs[x] # None /\ runs[x].status = e
      BY DEF IndInv, MailIsTruthful, Commits
    <2>2. x # req[q].run
      BY <1>1, <2>1 DEF Terminal
    <2> QED
      BY <2>1, <2>2, CommitFrame
  <1>6. OpenProposalFollowsStatus'
    <2> SUFFICES ASSUME NEW x \in RunIds, x # req[q].run
                 PROVE  OpenFitsStatus(x)'
      BY <1>1 DEF OpenProposalFollowsStatus
    <2>1. /\ OpenFitsStatus(x) /\ runs'[x] = runs[x] /\ Open(x)' = Open(x)
          /\ \A c \in Open(x) : proposals'[c] = proposals[c]
      BY CommitFrame DEF IndInv, OpenProposalFollowsStatus
    <2> QED
      BY <2>1 DEF OpenFitsStatus
  <1> QED
    BY <1>2, <1>3, <1>4, <1>5, <1>6 DEF IndInv

\* PostgresAgentRunStore.update
LEMMA UpdateCommits ==
    ASSUME IndInv, NEW q \in Requests, Update(q)
    PROVE  Commits(q) /\ IndInv'
  <1> DEFINE r == req[q].run
  <1>1. Commits(q) /\ proposals' = proposals /\ results' = results
    BY DEF Commits, Update, WritesOwnRows, Writing
  <1>2. /\ r \in RunIds /\ runs[r] = req[q].snap /\ runs[r] # None
        /\ runs'[r] = req[q].next /\ runs'[r] # None /\ req[q].snap \in AgentRun
    BY <1>1, CommitIsCurrent, CommitFrame, NoneAssumption DEF Commits
  <1>3. UpdateStep(req[q])
    BY DEF Update, IndInv, PendingWritesAreCurrent, HandlerIsCurrent
  <1>4. /\ runs[r].status \in {"received", "clarifying", "observing", "planning"}
        /\ runs'[r].status \in {"planning", "clarifying", "completed", "failed"}
    BY <1>2, <1>3, TransitionToRun DEF UpdateStep, AgentStatus
  <1>5. Open(r) = {}
    BY <1>2, <1>4 DEF IndInv, OpenProposalFollowsStatus, OpenFitsStatus
  <1>6. PICK x : x = r
    OBVIOUS
  <1>7. OpenFitsStatus(x)'
    BY <1>1, <1>2, <1>4, <1>5, <1>6 DEF OpenFitsStatus, Open
  <1>8. ResultsAreAuthorised'
    BY <1>1 DEF IndInv, ResultsAreAuthorised
  <1> QED
    BY <1>1, <1>6, <1>7, <1>8, CommitStep DEF IndInv, TypeOK

\* PostgresAgentRunStore.cancel_run
LEMMA CancelCommits ==
    ASSUME IndInv, NEW q \in Requests, CancelRun(q)
    PROVE  Commits(q) /\ IndInv'
  <1> DEFINE r == req[q].run
  <1>0. /\ proposals \in [CallIds -> ProposalRow \cup {None}]
        /\ \A c \in Open(r) : /\ proposals[c] \in ProposalRow
                              /\ proposals[c].run = r
                              /\ proposals[c] # None
    BY DEF IndInv, TypeOK, Open
  <1>1. \A c \in CallIds :
           /\ c \in Open(r) => /\ proposals'[c] = [proposals[c] EXCEPT !.closed = TRUE]
                               /\ proposals'[c] \in ProposalRow
                               /\ proposals'[c].closed
                               /\ proposals'[c].run = r
                               /\ proposals'[c].proposal = proposals[c].proposal
                               /\ proposals'[c] # None
           /\ c \notin Open(r) => proposals'[c] = proposals[c]
    BY <1>0, NoneAssumption DEF CancelRun, WithoutOpen, ProposalRow
  <1>2. Commits(q) /\ results' = results
    BY <1>0, <1>1 DEF Commits, CancelRun, WritesOwnRows, Writing
  <1>3. /\ r \in RunIds /\ runs'[r] = req[q].next /\ runs'[r] # None
        /\ req[q].snap \in AgentRun
    BY <1>2, CommitIsCurrent, CommitFrame, NoneAssumption DEF Commits
  <1>4. runs'[r].status = "cancelled"
    BY <1>3, TransitionToRun
    DEF CancelRun, IndInv, PendingWritesAreCurrent, HandlerIsCurrent, CancelStep,
        AgentStatus
  <1>5. PICK x : x = r
    OBVIOUS
  <1>6. OpenFitsStatus(x)'
    BY <1>1, <1>4, <1>5 DEF OpenFitsStatus, Open
  <1>7. ResultsAreAuthorised'
    BY <1>1, <1>2 DEF IndInv, ResultsAreAuthorised
  <1>8. proposals' \in [CallIds -> ProposalRow \cup {None}]
    <2>1. proposals' = [c \in CallIds |-> proposals'[c]]
      BY DEF CancelRun, WithoutOpen
    <2> QED
      BY <1>0, <1>1, <2>1
  <1> QED
    BY <1>2, <1>5, <1>6, <1>7, <1>8, CommitStep DEF IndInv, TypeOK

\* PostgresAgentRunStore.update_proposal, for a new proposal and for a
\* decision on the open one.
LEMMA ProposalCommits ==
    ASSUME IndInv, NEW q \in Requests, UpdateProposal(q)
    PROVE  Commits(q) /\ IndInv'
  <1> DEFINE r == req[q].run
             h == req[q]
  <1>0. PICK closed \in BOOLEAN : closed = (h.next.status \in Terminal)
    <2>1. (h.next.status \in Terminal) \in BOOLEAN
      OBVIOUS
    <2> QED
      BY <2>1
  <1> DEFINE row == [run |-> r, closed |-> closed, proposal |-> h.proposal]
  <1>1. /\ h.pc = "update_proposal" /\ h.pc \in Writing /\ VersionMatches(q)
        /\ CanUpsert(q) /\ results' = results
        /\ proposals' = [proposals EXCEPT ![h.call] = row]
    BY <1>0 DEF UpdateProposal, Writing
  <1>2. /\ r \in RunIds /\ runs[r] = h.snap /\ h.snap \in AgentRun /\ h.snap # None
        /\ h.call \in CallIds /\ h.proposal \in Proposal
        /\ proposals \in [CallIds -> ProposalRow \cup {None}]
    BY <1>1, CommitIsCurrent, PendingWrite, NoneAssumption DEF IndInv, TypeOK
  <1>3. row \in ProposalRow /\ row # None
    BY <1>2, NoneAssumption DEF ProposalRow
  <1>4. /\ proposals' \in [CallIds -> ProposalRow \cup {None}]
        /\ proposals'[h.call] = row
        /\ \A c \in CallIds \ {h.call} : proposals'[c] = proposals[c]
    BY <1>1, <1>2, <1>3
  <1>5. ProposeStep(h) \/ ResolveStep(h)
    BY <1>1 DEF IndInv, PendingWritesAreCurrent, HandlerIsCurrent
  <1>6. proposals[h.call] = None => h.op \in {"tools", "next"}
    BY <1>5 DEF ProposeStep, ResolveStep
  <1>7. Commits(q)
    BY <1>1, <1>2, <1>3, <1>4, <1>6
    DEF Commits, UpdateProposal, WritesOwnRows, CanUpsert
  <1>8. runs'[r] = h.next /\ runs'[r] # None
    BY <1>1, <1>7, CommitFrame, CommitIsCurrent, NoneAssumption
  <1>9. PICK x : x = r
    OBVIOUS
  <1>10. Open(x)' = (Open(r) \ {h.call}) \cup
                    (IF h.next.status \in Terminal THEN {} ELSE {h.call})
    <2>0. closed <=> h.next.status \in Terminal
      BY <1>0
    <2>1. /\ proposals'[h.call] # None /\ proposals'[h.call].run = x
          /\ proposals'[h.call].closed = closed
      BY <1>3, <1>4, <1>9
    <2>2. h.call \in Open(x)' <=> h.next.status \notin Terminal
      BY <1>2, <2>0, <2>1 DEF Open
    <2>3. \A c \in CallIds \ {h.call} : c \in Open(x)' <=> c \in Open(x)
      BY <1>4 DEF Open
    <2> QED
      BY <1>2, <1>9, <2>2, <2>3 DEF Open
  <1>11. CASE ProposeStep(h)
    <2>1. PICK call \in CallRequests :
             /\ CanProposeTool(h.snap, call)
             /\ Evaluate(call, h.snap.workspace) # "deny"
             /\ h.next = ProposedRun(h.snap, call)
             /\ h.proposal = NewProposal(h.snap, call)
      BY <1>11 DEF ProposeStep
    <2>2. /\ h.snap.status = "planning"
          /\ \/ h.next.status = "awaiting_approval" /\ AwaitsDecision(h.proposal)
             \/ h.next.status = "executing" /\ Authorised(h.proposal)
      BY <1>2, <2>1, ProposeTool DEF AwaitsDecision
    <2>3. Open(r) = {}
      BY <1>2, <2>2 DEF IndInv, OpenProposalFollowsStatus, OpenFitsStatus
    <2>4. Open(x)' = {h.call}
      BY <1>10, <2>2, <2>3 DEF Terminal
    <2>5. OpenFitsStatus(x)'
      BY <1>2, <1>4, <1>8, <1>9, <2>2, <2>4 DEF OpenFitsStatus
    <2>6. proposals[h.call] = None
      BY <1>11 DEF ProposeStep
    <2>7. ResultsAreAuthorised'
      BY <1>1, <1>4, <2>6 DEF IndInv, ResultsAreAuthorised
    <2> QED
      BY <1>1, <1>4, <1>7, <1>9, <2>5, <2>7, CommitStep DEF IndInv, TypeOK
  <1>12. CASE ResolveStep(h)
    <2>1. PICK p \in Proposal, d \in {"approved", "rejected"} :
             /\ CanResolveApproval(h.snap, p, d)
             /\ h.next = TransitionTo(h.snap, ResolvedStatus(d))
             /\ h.proposal = [p EXCEPT !.approval = d]
             /\ h.snap.version = runs[r].version
                => h.call \in Open(r) /\ proposals[h.call].proposal = p
      BY <1>12 DEF ResolveStep
    <2>2. /\ h.snap.status = "awaiting_approval" /\ p.policy = "require_approval"
          /\ ResolvedStatus(d) \in AgentStatus
          /\ CanTransition(h.snap, ResolvedStatus(d))
          /\ h.call \in Open(r)
      BY <1>2, <2>1 DEF CanResolveApproval, HasPendingApproval, ResolvedStatus,
                        AgentStatus
    <2>3. Open(r) = {h.call}
      BY <1>2, <2>2 DEF IndInv, OpenProposalFollowsStatus, OpenFitsStatus
    <2>4. /\ h.next.status = ResolvedStatus(d) /\ Registered(h.proposal)
          /\ h.proposal.policy = "require_approval" /\ h.proposal.approval = d
      <3>1. proposals[h.call].proposal = p /\ AwaitsDecision(p)
        BY <1>2, <2>1, <2>2, <2>3
        DEF IndInv, OpenProposalFollowsStatus, OpenFitsStatus
      <3> QED
        BY <1>2, <2>1, <2>2, <3>1, TransitionToRun
        DEF CanTransition, Proposal, AwaitsDecision, Registered
    <2>5. OpenFitsStatus(x)'
      <3>1. CASE d = "approved"
        <4>1. h.next.status = "executing" /\ Authorised(h.proposal)
          BY <2>4, <3>1 DEF ResolvedStatus, Authorised
        <4>2. Open(x)' = {h.call}
          BY <1>10, <2>3, <4>1 DEF Terminal
        <4> QED
          BY <1>2, <1>4, <1>8, <1>9, <4>1, <4>2 DEF OpenFitsStatus
      <3>2. CASE d = "rejected"
        <4>1. h.next.status = "cancelled"
          BY <2>4, <3>2 DEF ResolvedStatus
        <4>2. Open(x)' = {}
          BY <1>10, <2>3, <4>1 DEF Terminal
        <4> QED
          BY <1>8, <1>9, <4>1, <4>2 DEF OpenFitsStatus
      <3> QED
        BY <3>1, <3>2
    <2>6. results[h.call] = "none"
      BY <2>2 DEF IndInv, TypeOK, ResultsAreAuthorised, Open
    <2>7. ResultsAreAuthorised'
      BY <1>1, <1>4, <2>6 DEF IndInv, ResultsAreAuthorised
    <2> QED
      BY <1>1, <1>4, <1>7, <1>9, <2>5, <2>7, CommitStep DEF IndInv, TypeOK
  <1> QED
    BY <1>5, <1>7, <1>11, <1>12

\* PostgresAgentRunStore.complete_proposal
LEMMA ResultCommits ==
    ASSUME IndInv, NEW q \in Requests, CompleteProposal(q)
    PROVE  Commits(q) /\ IndInv'
  <1> DEFINE r == req[q].run
             c0 == req[q].call
  <1>1. /\ req[q].pc = "complete_proposal" /\ req[q].pc \in Writing
        /\ VersionMatches(q) /\ c0 \in Open(r)
        /\ proposals' = [proposals EXCEPT ![c0].closed = TRUE]
    BY DEF CompleteProposal, CanComplete, Writing
  <1>2. /\ proposals \in [CallIds -> ProposalRow \cup {None}] /\ c0 \in CallIds
        /\ proposals[c0] \in ProposalRow /\ proposals[c0] # None
        /\ proposals[c0].run = r
    BY <1>1 DEF IndInv, TypeOK, Open
  <1>3. /\ proposals'[c0] = [proposals[c0] EXCEPT !.closed = TRUE]
        /\ \A c \in CallIds \ {c0} : proposals'[c] = proposals[c]
    BY <1>1, <1>2
  <1>4. /\ proposals'[c0] \in ProposalRow /\ proposals'[c0].closed
        /\ proposals'[c0].run = r /\ proposals'[c0] # None
        /\ proposals'[c0].proposal = proposals[c0].proposal
    BY <1>2, <1>3, NoneAssumption DEF ProposalRow
  <1>5. proposals' \in [CallIds -> ProposalRow \cup {None}]
    BY <1>1, <1>2, <1>3, <1>4
  <1>6. Commits(q)
    BY <1>1, <1>2, <1>3, <1>4 DEF Commits, CompleteProposal, WritesOwnRows
  <1>7. /\ r \in RunIds /\ runs[r] = req[q].snap /\ req[q].snap \in AgentRun
        /\ runs'[r] = req[q].next /\ runs'[r] # None /\ runs[r] # None
    BY <1>1, <1>6, CommitIsCurrent, CommitFrame, NoneAssumption
  <1>8. ResultStep(req[q])
    BY <1>1 DEF IndInv, PendingWritesAreCurrent, HandlerIsCurrent
  <1>9. /\ runs[r].status = "executing"
        /\ runs'[r].status \in {"observing", "failed"}
    BY <1>7, <1>8, TransitionToRun
    DEF ResultStep, CanRecordExecutionResult, ResultStatus, AgentStatus
  <1>10. Open(r) = {c0} /\ Authorised(proposals[c0].proposal)
    BY <1>1, <1>7, <1>9 DEF IndInv, OpenProposalFollowsStatus, OpenFitsStatus
  <1>11. PICK x : x = r
    OBVIOUS
  <1>12. Open(x)' = {}
    <2>1. ASSUME NEW c \in CallIds
          PROVE  c \notin Open(x)'
      <3>1. CASE c = c0
        BY <1>4, <3>1 DEF Open
      <3>2. CASE c # c0
        <4>1. c \notin Open(x) /\ proposals'[c] = proposals[c]
          BY <1>3, <1>10, <1>11, <3>2
        <4> QED
          BY <4>1 DEF Open
      <3> QED
        BY <3>1, <3>2
    <2> QED
      BY <2>1 DEF Open
  <1>13. OpenFitsStatus(x)'
    BY <1>7, <1>9, <1>11, <1>12 DEF OpenFitsStatus
  <1>14. PICK v \in {"succeeded", "failed"} : results' = [results EXCEPT ![c0] = v]
    BY DEF CompleteProposal
  <1>15. results' \in [CallIds -> {"none", "succeeded", "failed"}]
    BY <1>14 DEF IndInv, TypeOK
  <1>16. ResultsAreAuthorised'
    <2> SUFFICES ASSUME NEW c \in CallIds, results'[c] # "none"
                 PROVE  /\ proposals'[c] # None /\ proposals'[c].closed
                        /\ Authorised(proposals'[c].proposal)
      BY DEF ResultsAreAuthorised, Authorised
    <2>1. CASE c = c0
      BY <1>4, <1>10, <2>1
    <2>2. CASE c # c0
      BY <1>3, <1>14, <2>2 DEF IndInv, TypeOK, ResultsAreAuthorised
    <2> QED
      BY <2>1, <2>2
  <1> QED
    BY <1>5, <1>6, <1>11, <1>13, <1>15, <1>16, CommitStep

--------------------------------------------------------------------------------
(***************************************************************************)
(* The theorems                                                            *)
(***************************************************************************)

\* create_agent_run inserts a run no handler knows of.
LEMMA CreateStep ==
    ASSUME IndInv, NEW r \in RunIds, CreateAgentRun(r)
    PROVE  IndInv'
  <1>1. PICK n \in 1 .. MAX_AGENT_STEPS, w \in Workspaces :
           runs' = [runs EXCEPT ![r] = NewRun(n, w)]
    BY DEF CreateAgentRun
  <1>2. /\ runs[r] = None /\ UNCHANGED <<proposals, results, issued, req, mail>>
    BY DEF CreateAgentRun
  <1>3. NewRun(n, w) \in AgentRun /\ NewRun(n, w).status = "received"
    BY StepsAssumption DEF NewRun, AgentRun, AgentStatus
  <1>4. /\ runs'[r] \in AgentRun /\ runs'[r].status = "received" /\ runs'[r] # None
        /\ \A x \in RunIds \ {r} : runs'[x] = runs[x]
        /\ runs' \in [RunIds -> AgentRun \cup {None}]
    BY <1>1, <1>3, NoneAssumption DEF IndInv, TypeOK
  <1>5. TypeOK' /\ CallsAreUnique' /\ ResultsAreAuthorised'
    BY <1>2, <1>4 DEF IndInv, TypeOK, CallsAreUnique, ResultsAreAuthorised
  <1>6. MailIsTruthful'
    BY <1>2, <1>4 DEF IndInv, MailIsTruthful
  <1>7. OpenProposalFollowsStatus'
    <2> SUFFICES ASSUME NEW x \in RunIds PROVE OpenFitsStatus(x)'
      BY DEF OpenProposalFollowsStatus
    <2>1. OpenFitsStatus(x) /\ Open(x)' = Open(x)
      BY <1>2 DEF IndInv, OpenProposalFollowsStatus, Open
    <2>2. CASE x = r
      BY <1>2, <1>4, <2>1, <2>2 DEF OpenFitsStatus
    <2>3. CASE x # r
      BY <1>2, <1>4, <2>1, <2>3 DEF OpenFitsStatus
    <2> QED
      BY <2>2, <2>3
  <1>8. ASSUME NEW q \in Requests
        PROVE  HandlerIsCurrent(req[q])' /\ HandlerNotifies(req[q])'
    <2> DEFINE h == req[q]
    <2>1. HandlerIsCurrent(h) /\ HandlerNotifies(h) /\ req'[q] = h
      BY <1>2 DEF IndInv, PendingWritesAreCurrent, NotificationsFollowCommit
    <2>2. ASSUME NEW run, h.run \in RunIds, ReadFrom(run, h.run)
          PROVE  runs'[h.run] = runs[h.run] /\ ReadFrom(run, h.run)'
      BY <1>2, <1>4, <2>1, <2>2 DEF ReadFrom
    <2>3. HandlerIsCurrent(h)'
      BY <1>2, <2>1, <2>2
      DEF HandlerIsCurrent, UpdateStep, CancelStep, ProposeStep, ResolveStep,
          ResultStep, Open, Writing
    <2>4. HandlerNotifies(h)'
      BY <1>2, <1>4, <2>1 DEF HandlerNotifies
    <2> QED
      BY <2>3, <2>4
  <1> QED
    BY <1>5, <1>6, <1>7, <1>8
    DEF IndInv, PendingWritesAreCurrent, NotificationsFollowCommit

\* The empty database with no request under way.
LEMMA InitIndInv == Init => IndInv
  <1> SUFFICES ASSUME Init PROVE IndInv
    OBVIOUS
  <1>1. Idle \in Request
    BY DEF Idle, Request, Operation
  <1>2. TypeOK
    BY <1>1 DEF Init, TypeOK
  <1>3. PendingWritesAreCurrent /\ CallsAreUnique /\ NotificationsFollowCommit
    BY DEF Init, Idle, PendingWritesAreCurrent, HandlerIsCurrent, Writing,
           CallsAreUnique, NotificationsFollowCommit, HandlerNotifies
  <1>4. OpenProposalFollowsStatus /\ ResultsAreAuthorised /\ MailIsTruthful
    BY DEF Init, OpenProposalFollowsStatus, OpenFitsStatus, Open, ResultsAreAuthorised,
           MailIsTruthful
  <1> QED
    BY <1>2, <1>3, <1>4 DEF IndInv

\* Every handler step, read, transaction and fault preserves the invariant.
LEMMA NextIndInv == IndInv /\ [Next]_vars => IndInv'
  <1> SUFFICES ASSUME IndInv, [Next]_vars PROVE IndInv'
    OBVIOUS
  <1>1. CASE UNCHANGED vars
    <2>1. PendingWritesAreCurrent' /\ NotificationsFollowCommit'
      BY <1>1, FrameHandler DEF vars, tables, IndInv, PendingWritesAreCurrent,
                                NotificationsFollowCommit
    <2>2. OpenProposalFollowsStatus'
      BY <1>1 DEF vars, IndInv, OpenProposalFollowsStatus, OpenFitsStatus, Open
    <2>3. /\ TypeOK' /\ CallsAreUnique'
          /\ ResultsAreAuthorised' /\ MailIsTruthful'
      BY <1>1 DEF vars, IndInv, TypeOK, CallsAreUnique, ResultsAreAuthorised,
                  MailIsTruthful
    <2> QED
      BY <2>1, <2>2, <2>3 DEF IndInv
  <1>2. CASE \E r \in RunIds : CreateAgentRun(r)
    BY <1>2, CreateStep
  <1>3. CASE \E q \in Requests : Receive(q)
    BY <1>3, CancelOrBegin, NextReads, ToolsReads, ApprovalReads, ResultReads,
       ActiveReads
    DEF Receive
  <1>4. CASE \E q \in Requests : HandlerStep(q)
    BY <1>4, PlannerReturns, RepairSuspends, HandlerEnds, UpdateCommits, CancelCommits,
       ProposalCommits, ResultCommits DEF HandlerStep
  <1>5. CASE \E q \in Requests : Abort(q) \/ Respond(q)
    BY <1>5, HandlerEnds
  <1> QED
    BY <1>1, <1>2, <1>3, <1>4, <1>5 DEF Next

\* Every reachable state satisfies the inductive invariant.
THEOREM Invariance == Spec => []IndInv
  BY InitIndInv, NextIndInv, PTL DEF Spec

\* Type correctness, for any number of runs, calls and concurrent requests.
THEOREM TypeCorrect == Spec => []TypeOK
  <1>1. IndInv => TypeOK
    BY DEF IndInv
  <1> QED
    BY Invariance, <1>1, PTL

\* The run and its open proposal agree in every reachable state.
THEOREM OpenProposalSafety == Spec => []OpenProposalFollowsStatus
  <1>1. IndInv => OpenProposalFollowsStatus
    BY DEF IndInv
  <1> QED
    BY Invariance, <1>1, PTL

\* No result is stored for a call that was not authorised.
THEOREM AuthorisationSafety == Spec => []ResultsAreAuthorised
  <1>1. IndInv => ResultsAreAuthorised
    BY DEF IndInv
  <1> QED
    BY Invariance, <1>1, PTL

\* A handler whose version check will pass holds the current run and proposal.
THEOREM HandlerCurrency == Spec => []PendingWritesAreCurrent
  <1>1. IndInv => PendingWritesAreCurrent
    BY DEF IndInv
  <1> QED
    BY Invariance, <1>1, PTL

\* Completion and failure mails report what is stored.
THEOREM MailSafety == Spec => []MailIsTruthful
  <1>1. IndInv => MailIsTruthful
    BY DEF IndInv
  <1> QED
    BY Invariance, <1>1, PTL

--------------------------------------------------------------------------------
(***************************************************************************)
(* What a step may never do                                                *)
(***************************************************************************)

\* A step creates a run, commits one transaction, or leaves the tables alone.
LEMMA StepShape ==
    ASSUME IndInv, Next
    PROVE  \/ UNCHANGED tables
           \/ \E r \in RunIds : CreateAgentRun(r)
           \/ \E q \in Requests : Update(q) \/ CancelRun(q) \/ UpdateProposal(q)
                                  \/ CompleteProposal(q)
  <1>1. ASSUME NEW q \in Requests, Receive(q) PROVE UNCHANGED tables
    BY <1>1 DEF Receive, CancelAgentRun, BeginAgentPlanning, PlanNextAgentStep,
                ProposeAgentTool, ResolveAgentToolApproval, SubmitAgentToolResult,
                GetActiveAgentTool, tables
  <1>2. ASSUME NEW q \in Requests,
               \/ PlannerFails(q) \/ PlannerRepairs(q) \/ PlannerRaises(q)
               \/ DecisionFails(q)
               \/ PlannerDecides(q, "clarifying") \/ PlannerDecides(q, "completed")
               \/ PlannerProposesTool(q) \/ StoreRefuses(q) \/ Notify(q)
               \/ Abort(q) \/ Respond(q)
        PROVE  UNCHANGED tables
    BY <1>2 DEF PlannerFails, PlannerRepairs, PlannerRaises, DecisionFails,
                FailPlanningRun, PlannerDecides, PlannerProposesTool, StoreRefuses, Conflict, Notify, Abort, Respond, tables
  <1> QED
    BY <1>1, <1>2 DEF Next, HandlerStep

\* No step writes a run that has ended.
LEMMA EndedStays ==
    ASSUME IndInv, Next, NEW r \in RunIds,
           runs[r] # None, runs[r].status \in Terminal
    PROVE  runs'[r] = runs[r]
  <1>1. CASE UNCHANGED tables
    BY <1>1 DEF tables
  <1>2. CASE \E x \in RunIds : CreateAgentRun(x)
    BY <1>2 DEF CreateAgentRun, IndInv, TypeOK
  <1>3. CASE \E q \in Requests : Commits(q)
    <2>1. PICK q \in Requests : Commits(q)
      BY <1>3
    <2>2. r # req[q].run
      BY <2>1, CommitIsCurrent DEF Commits
    <2> QED
      BY <2>1, <2>2, CommitFrame
  <1> QED
    BY <1>1, <1>2, <1>3, StepShape, UpdateCommits, CancelCommits, ProposalCommits,
       ResultCommits

\* A terminal run is never written again.
THEOREM TerminalSafety == Spec => TerminalIsFinal
  <1>1. IndInv /\ [Next]_vars =>
           [\A r \in RunIds : runs[r] # None /\ runs[r].status \in Terminal
               => runs'[r] = runs[r]]_vars
    BY EndedStays
  <1> QED
    BY Invariance, <1>1, PTL DEF Spec, TerminalIsFinal

\* A transaction that completes or fails its run is one whose handler goes on
\* to notify.
LEMMA EndingCommit ==
    ASSUME IndInv, NEW q \in Requests, Commits(q),
           req[q].next.status \in {"completed", "failed"}
    PROVE  \/ req[q].op = "next"
           \/ req[q].op = "result" /\ req[q].next.status = "failed"
  <1> DEFINE h == req[q]
  <1>1. /\ HandlerIsCurrent(h) /\ h.pc \in Writing
        /\ h.snap \in AgentRun /\ h.snap.status \notin Terminal
    BY CommitIsCurrent DEF Commits, IndInv, PendingWritesAreCurrent
  <1>2. CASE h.pc = "update"
    <2>1. h.op # "next" => h.next = TransitionTo(h.snap, "planning")
      BY <1>1, <1>2 DEF HandlerIsCurrent, UpdateStep
    <2>2. TransitionTo(h.snap, "planning").status = "planning"
      BY <1>1, TransitionToRun DEF AgentStatus
    <2> QED
      BY <2>1, <2>2
  <1>3. CASE h.pc = "cancel_run"
    <2>1. h.next = TransitionTo(h.snap, "cancelled")
      BY <1>1, <1>3 DEF HandlerIsCurrent, CancelStep
    <2> QED
      BY <1>1, <2>1, TransitionToRun DEF AgentStatus
  <1>4. CASE h.pc = "update_proposal" /\ ProposeStep(h)
    <2>1. PICK call \in CallRequests :
             /\ CanProposeTool(h.snap, call)
             /\ Evaluate(call, h.snap.workspace) # "deny"
             /\ h.next = ProposedRun(h.snap, call)
      BY <1>4 DEF ProposeStep
    <2> QED
      BY <1>1, <2>1, ProposeTool
  <1>5. CASE h.pc = "update_proposal" /\ ResolveStep(h)
    <2>1. PICK p \in Proposal, d \in {"approved", "rejected"} :
             /\ CanResolveApproval(h.snap, p, d)
             /\ h.next = TransitionTo(h.snap, ResolvedStatus(d))
      BY <1>5 DEF ResolveStep
    <2>2. h.next.status = ResolvedStatus(d)
      BY <2>1 DEF TransitionTo
    <2> QED
      BY <2>2 DEF ResolvedStatus
  <1>6. CASE h.pc = "complete_proposal"
    <2>1. h.op = "result"
      BY <1>1, <1>6 DEF HandlerIsCurrent, ResultStep
    <2>2. PICK ok \in BOOLEAN : h.next = TransitionTo(h.snap, ResultStatus(ok))
      BY <1>1, <1>6 DEF HandlerIsCurrent, ResultStep
    <2>3. h.next.status = ResultStatus(ok)
      BY <2>2 DEF TransitionTo
    <2> QED
      BY <2>1, <2>3 DEF ResultStatus
  <1> QED
    BY <1>1, <1>2, <1>3, <1>4, <1>5, <1>6 DEF HandlerIsCurrent, Writing

\* No run completes or fails without a handler that goes on to report it.
THEOREM ReportingSafety == Spec => TerminalOutcomeReported
  <1>1. ASSUME IndInv, Next, NEW r \in RunIds, NEW e \in {"completed", "failed"},
               runs'[r] # runs[r], runs'[r].status = e
        PROVE  Notifying(<<e, r>>)'
    <2>1. CASE UNCHANGED tables
      BY <1>1, <2>1 DEF tables
    <2>2. CASE \E x \in RunIds : CreateAgentRun(x)
      BY <1>1, <2>2 DEF CreateAgentRun, NewRun, IndInv, TypeOK
    <2>3. CASE \E q \in Requests : Commits(q)
      <3>1. PICK q \in Requests : Commits(q)
        BY <2>3
      <3>2. req[q].run = r /\ req[q].next.status = e
        BY <1>1, <3>1, CommitFrame
      <3>3. \/ req[q].op = "next"
            \/ req[q].op = "result" /\ e = "failed"
        BY <1>1, <3>1, <3>2, EndingCommit
      <3>4. req' = [req EXCEPT ![q] = [req[q] EXCEPT !.pc = "notify"]]
        BY <3>1, <3>2, <3>3 DEF Commits, Continue, Await
      <3>5. /\ req'[q].pc = "notify"
            /\ req'[q].next = req[q].next /\ req'[q].run = req[q].run
        BY <1>1, <3>4 DEF IndInv, TypeOK, Request
      <3> QED
        BY <3>2, <3>5 DEF Notifying, Event
    <2> QED
      BY <1>1, <2>1, <2>2, <2>3, StepShape, UpdateCommits, CancelCommits,
         ProposalCommits, ResultCommits
  <1>2. IndInv /\ [Next]_vars =>
           [\A r \in RunIds, e \in {"completed", "failed"} :
               runs'[r] # runs[r] /\ runs'[r].status = e => Notifying(<<e, r>>)']_vars
    BY <1>1
  <1> QED
    BY Invariance, <1>2, PTL DEF Spec, TerminalOutcomeReported

\* What AuditIsFinal demands of a step for call c.
Kept(c) ==
    /\ proposals[c] # None =>
          /\ proposals'[c] # None /\ proposals'[c].run = proposals[c].run
          /\ proposals[c].closed => proposals'[c] = proposals[c]
          /\ proposals[c].proposal.approval # "pending"
             => proposals'[c].proposal = proposals[c].proposal
    /\ results[c] # "none" => results'[c] = results[c]

\* Closed proposals, decisions and results are never rewritten by a step.
LEMMA StepKeeps ==
    ASSUME IndInv, Next, NEW c \in CallIds
    PROVE  Kept(c)
  <1>0. /\ proposals \in [CallIds -> ProposalRow \cup {None}]
        /\ results \in [CallIds -> {"none", "succeeded", "failed"}]
    BY DEF IndInv, TypeOK
  <1>1. CASE proposals'[c] = proposals[c] /\ results'[c] = results[c]
    BY <1>1 DEF Kept
  <1>2. ASSUME NEW q \in Requests, CancelRun(q) PROVE Kept(c)
    <2>1. CASE c \in Open(req[q].run)
      <3>1. /\ proposals'[c] = [proposals[c] EXCEPT !.closed = TRUE]
            /\ proposals[c] \in ProposalRow /\ proposals[c] # None
            /\ ~proposals[c].closed /\ results' = results
        BY <1>0, <1>2, <2>1 DEF CancelRun, WithoutOpen, Open
      <3> QED
        BY <3>1, NoneAssumption DEF Kept, ProposalRow
    <2>2. CASE c \notin Open(req[q].run)
      BY <1>2, <2>2 DEF CancelRun, WithoutOpen, Kept
    <2> QED
      BY <2>1, <2>2
  <1>3. ASSUME NEW q \in Requests, CompleteProposal(q) PROVE Kept(c)
    <2>1. CASE c = req[q].call
      <3>1. /\ proposals'[c] = [proposals[c] EXCEPT !.closed = TRUE]
            /\ proposals[c] \in ProposalRow /\ proposals[c] # None
            /\ ~proposals[c].closed /\ results[c] = "none"
        BY <1>0, <1>3, <2>1 DEF CompleteProposal, CanComplete, Open
      <3> QED
        BY <3>1, NoneAssumption DEF Kept, ProposalRow
    <2>2. CASE c # req[q].call
      BY <1>0, <1>3, <2>2 DEF CompleteProposal, Kept
    <2> QED
      BY <2>1, <2>2
  <1>4. ASSUME NEW q \in Requests, UpdateProposal(q) PROVE Kept(c)
    <2>1. CASE c # req[q].call
      BY <1>0, <1>4, <2>1 DEF UpdateProposal, Kept
    <2>2. CASE c = req[q].call
      <3>1. /\ req[q].pc \in Writing /\ VersionMatches(q) /\ results' = results
            /\ ProposeStep(req[q]) \/ ResolveStep(req[q])
            /\ proposals' = [proposals EXCEPT ![c] = proposals'[c]]
        BY <1>0, <1>4, <2>2
        DEF UpdateProposal, Writing, IndInv, PendingWritesAreCurrent,
            HandlerIsCurrent
      <3>2. CASE ProposeStep(req[q])
        BY <2>2, <3>1, <3>2 DEF ProposeStep, Kept
      <3>3. CASE ResolveStep(req[q])
        <4>1. runs[req[q].run] = req[q].snap
          BY <3>1, CommitIsCurrent
        <4>2. /\ proposals[c].run = req[q].run /\ c \in Open(req[q].run)
              /\ proposals[c].proposal.approval = "pending"
          BY <2>2, <3>3, <4>1 DEF ResolveStep, CanResolveApproval, HasPendingApproval
        <4>3. ~proposals[c].closed
          BY <4>2 DEF Open
        <4>4. proposals'[c] # None /\ proposals'[c].run = req[q].run
          BY <1>0, <1>4, <2>2, <4>2, ProposalCommits
          DEF UpdateProposal, Commits, WritesOwnRows, Open
        <4> QED
          BY <3>1, <4>2, <4>3, <4>4 DEF Kept
      <3> QED
        BY <3>1, <3>2, <3>3
    <2> QED
      BY <2>1, <2>2
  <1> QED
    BY <1>1, <1>2, <1>3, <1>4, StepShape DEF tables, CreateAgentRun, Update

\* Closed proposals, decisions and results are never rewritten.
THEOREM AuditSafety == Spec => AuditIsFinal
  <1>1. IndInv /\ [Next]_vars => [\A c \in CallIds : Kept(c)]_vars
    BY StepKeeps
  <1> QED
    BY Invariance, <1>1, PTL DEF Spec, AuditIsFinal, Kept

--------------------------------------------------------------------------------
(***************************************************************************)
(* AgentApi implements RunLifecycle                                        *)
(***************************************************************************)

\* The instance of RunLifecycle speaks of the same service operations.
LEMMA SameService ==
    /\ \A run, s : /\ Lifecycle!TransitionTo(run, s) = TransitionTo(run, s)
                   /\ Lifecycle!CanTransition(run, s) <=> CanTransition(run, s)
    /\ \A call, w : Lifecycle!Evaluate(call, w) = Evaluate(call, w)
    /\ \A run, call :
          /\ Lifecycle!CanProposeTool(run, call) <=> CanProposeTool(run, call)
          /\ Lifecycle!ProposedRun(run, call) = ProposedRun(run, call)
          /\ Lifecycle!NewProposal(run, call) = NewProposal(run, call)
    /\ \A run, p, d :
          Lifecycle!CanResolveApproval(run, p, d) <=> CanResolveApproval(run, p, d)
    /\ \A d : Lifecycle!ResolvedStatus(d) = ResolvedStatus(d)
    /\ \A ok : Lifecycle!ResultStatus(ok) = ResultStatus(ok)
    /\ Lifecycle!Terminal = Terminal
  <1>1. \A run, s : Lifecycle!TransitionTo(run, s) = TransitionTo(run, s)
    BY DEF Lifecycle!TransitionTo, TransitionTo
  <1>2. \A status : Lifecycle!AllowedTransitions(status) = AllowedTransitions(status)
    BY DEF Lifecycle!AllowedTransitions, AllowedTransitions
  <1>3. \A run, s : Lifecycle!CanTransition(run, s) <=> CanTransition(run, s)
    BY <1>2 DEF Lifecycle!CanTransition, CanTransition, Lifecycle!StepLimitReached,
                StepLimitReached
  <1>4. \A call, w : Lifecycle!Evaluate(call, w) = Evaluate(call, w)
    BY DEF Lifecycle!Evaluate, Evaluate, Lifecycle!IsAuthorized, IsAuthorized
  <1>5. \A d : /\ Lifecycle!ProposedStatus(d) = ProposedStatus(d)
              /\ Lifecycle!ResolvedStatus(d) = ResolvedStatus(d)
              /\ Lifecycle!ResultStatus(d) = ResultStatus(d)
    BY DEF Lifecycle!ProposedStatus, ProposedStatus, Lifecycle!ResolvedStatus,
           ResolvedStatus, Lifecycle!ResultStatus, ResultStatus
  <1>6. \A run, call :
           /\ Lifecycle!CanProposeTool(run, call) <=> CanProposeTool(run, call)
           /\ Lifecycle!ProposedRun(run, call) = ProposedRun(run, call)
           /\ Lifecycle!NewProposal(run, call) = NewProposal(run, call)
    BY <1>1, <1>3, <1>4, <1>5
    DEF Lifecycle!CanProposeTool, CanProposeTool, Lifecycle!ProposedRun, ProposedRun,
        Lifecycle!NewProposal, NewProposal
  <1>7. \A run, p, d :
           Lifecycle!CanResolveApproval(run, p, d) <=> CanResolveApproval(run, p, d)
    BY <1>3, <1>5 DEF Lifecycle!CanResolveApproval, CanResolveApproval,
                      Lifecycle!HasPendingApproval, HasPendingApproval
  <1>8. Lifecycle!Terminal = Terminal
    BY DEF Lifecycle!Terminal, Terminal
  <1> QED
    BY <1>1, <1>3, <1>4, <1>5, <1>6, <1>7, <1>8

\* A commit changes the active proposals of its own run only.
LEMMA CommitActive ==
    ASSUME IndInv, NEW q \in Requests, Commits(q), NEW r, r = req[q].run
    PROVE  /\ runs' = [runs EXCEPT ![r] = req[q].next]
           /\ ActiveProposals' = [ActiveProposals EXCEPT ![r] = ActiveProposals'[r]]
  <1>1. \A x \in RunIds \ {r} :
           {proposals[c].proposal : c \in Open(x)}' = {proposals[c].proposal : c \in Open(x)}
    BY CommitFrame
  <1>2. r \in RunIds
    BY CommitIsCurrent DEF Commits
  <1> QED
    BY <1>1, <1>2 DEF ActiveProposals, Commits, StoreRun

\* Every update stores begin_planning, continue_planning,
\* request_clarification, complete_run or fail_run of the current run.
LEMMA UpdateRefines ==
    ASSUME IndInv, IndInv', NEW q \in Requests, Update(q)
    PROVE  Lifecycle!Next
  <1>1. PICK r : r = req[q].run
    OBVIOUS
  <1>2. Commits(q)
    BY UpdateCommits
  <1>3. /\ r \in RunIds /\ runs[r] = req[q].snap /\ runs[r] # None
        /\ runs[r] \in AgentRun /\ runs'[r] = req[q].next /\ runs'[r] # None
    BY <1>1, <1>2, CommitIsCurrent, CommitFrame, NoneAssumption DEF Commits
  <1>4. UpdateStep(req[q])
    BY DEF Update, IndInv, PendingWritesAreCurrent, HandlerIsCurrent
  <1>5. /\ runs[r].status \in {"received", "clarifying", "observing", "planning"}
        /\ runs'[r].status \in {"planning", "clarifying", "completed", "failed"}
    BY <1>3, <1>4, TransitionToRun DEF UpdateStep, AgentStatus
  <1>6. Open(r) = {} /\ Open(r)' = {}
    BY <1>3, <1>5 DEF IndInv, OpenProposalFollowsStatus, OpenFitsStatus
  <1>7. /\ runs' = [runs EXCEPT ![r] = req[q].next]
        /\ ActiveProposals' = [ActiveProposals EXCEPT ![r] = ActiveProposals[r]]
    <2>1. ActiveProposals'[r] = {} /\ ActiveProposals[r] = {}
      BY <1>3, <1>6 DEF ActiveProposals
    <2> QED
      BY <1>1, <1>2, <2>1, CommitActive
  <1>8. CASE /\ runs[r].status \in {"received", "clarifying", "observing"}
             /\ req[q].next = TransitionTo(runs[r], "planning")
    <2>1. Lifecycle!CanBeginPlanning(runs[r]) \/ Lifecycle!CanContinuePlanning(runs[r])
      BY <1>8, SameService
      DEF Lifecycle!CanBeginPlanning, Lifecycle!CanContinuePlanning, CanTransition,
          AllowedTransitions
    <2>2. Lifecycle!Plan(r)
      BY <1>3, <1>7, <1>8, <2>1, SameService DEF Lifecycle!Plan, Lifecycle!Set
    <2> QED
      BY <1>3, <2>2 DEF Lifecycle!Next
  <1>9. CASE /\ runs[r].status = "planning"
             /\ req[q].next = TransitionTo(runs[r], "clarifying")
    <2>1. Lifecycle!CanRequestClarification(runs[r])
      BY <1>9, SameService
      DEF Lifecycle!CanRequestClarification, CanTransition, AllowedTransitions
    <2>2. Lifecycle!Clarify(r)
      BY <1>3, <1>7, <1>9, <2>1, SameService DEF Lifecycle!Clarify, Lifecycle!Set
    <2> QED
      BY <1>3, <2>2 DEF Lifecycle!Next
  <1>10. CASE /\ runs[r].status = "planning"
              /\ req[q].next = TransitionTo(runs[r], "completed")
    <2>1. Lifecycle!CanCompleteRun(runs[r])
      BY <1>10, SameService
      DEF Lifecycle!CanCompleteRun, CanTransition, AllowedTransitions
    <2>2. Lifecycle!Complete(r)
      BY <1>3, <1>7, <1>10, <2>1, SameService DEF Lifecycle!Complete, Lifecycle!Set
    <2> QED
      BY <1>3, <2>2 DEF Lifecycle!Next
  <1>11. CASE /\ runs[r].status = "planning"
              /\ req[q].next = TransitionTo(runs[r], "failed")
    <2>1. Lifecycle!CanFailRun(runs[r])
      BY <1>11, SameService
      DEF Lifecycle!CanFailRun, CanTransition, AllowedTransitions, Terminal
    <2>2. Lifecycle!Fail(r)
      BY <1>3, <1>7, <1>11, <2>1, SameService DEF Lifecycle!Fail, Lifecycle!Set
    <2> QED
      BY <1>3, <2>2 DEF Lifecycle!Next
  <1> QED
    BY <1>3, <1>4, <1>8, <1>9, <1>10, <1>11 DEF UpdateStep

\* cancel_run of the current run, whatever it was doing.
LEMMA CancelRefines ==
    ASSUME IndInv, IndInv', NEW q \in Requests, CancelRun(q)
    PROVE  Lifecycle!Next
  <1>1. PICK r : r = req[q].run
    OBVIOUS
  <1>2. Commits(q)
    BY CancelCommits
  <1>3. /\ r \in RunIds /\ runs[r] = req[q].snap /\ runs[r] # None
        /\ runs[r] \in AgentRun /\ runs'[r] = req[q].next /\ runs'[r] # None
    BY <1>1, <1>2, CommitIsCurrent, CommitFrame, NoneAssumption DEF Commits
  <1>4. CanCancelRun(runs[r]) /\ req[q].next = TransitionTo(runs[r], "cancelled")
    BY <1>3 DEF CancelRun, IndInv, PendingWritesAreCurrent, HandlerIsCurrent, CancelStep
  <1>5. runs'[r].status = "cancelled"
    BY <1>3, <1>4, TransitionToRun DEF AgentStatus
  <1>6. Open(r)' = {}
    BY <1>3, <1>5 DEF IndInv, OpenProposalFollowsStatus, OpenFitsStatus
  <1>7. /\ runs' = [runs EXCEPT ![r] = req[q].next]
        /\ ActiveProposals' = [ActiveProposals EXCEPT ![r] = {}]
    <2>1. ActiveProposals'[r] = {}
      BY <1>3, <1>6 DEF ActiveProposals
    <2> QED
      BY <1>1, <1>2, <2>1, CommitActive
  <1>8. Lifecycle!Cancel(r)
    BY <1>3, <1>4, <1>7, SameService
    DEF Lifecycle!Cancel, Lifecycle!Set, Lifecycle!CanCancelRun, CanCancelRun
  <1> QED
    BY <1>3, <1>8 DEF Lifecycle!Next

\* record_execution_result of the current run.
LEMMA ResultRefines ==
    ASSUME IndInv, IndInv', NEW q \in Requests, CompleteProposal(q)
    PROVE  Lifecycle!Next
  <1>1. PICK r : r = req[q].run
    OBVIOUS
  <1>2. Commits(q)
    BY ResultCommits
  <1>3. /\ r \in RunIds /\ runs[r] = req[q].snap /\ runs[r] # None
        /\ runs[r] \in AgentRun /\ runs'[r] = req[q].next /\ runs'[r] # None
    BY <1>1, <1>2, CommitIsCurrent, CommitFrame, NoneAssumption DEF Commits
  <1>4. PICK ok \in BOOLEAN :
           /\ runs[r].status = "executing"
           /\ req[q].next = TransitionTo(runs[r], ResultStatus(ok))
    BY <1>3 DEF CompleteProposal, IndInv, PendingWritesAreCurrent, HandlerIsCurrent,
                ResultStep, CanRecordExecutionResult
  <1>5. runs'[r].status \in {"observing", "failed"}
    BY <1>3, <1>4, TransitionToRun DEF AgentStatus, ResultStatus
  <1>6. Open(r)' = {}
    BY <1>3, <1>5 DEF IndInv, OpenProposalFollowsStatus, OpenFitsStatus
  <1>7. /\ runs' = [runs EXCEPT ![r] = req[q].next]
        /\ ActiveProposals' = [ActiveProposals EXCEPT ![r] = {}]
    <2>1. ActiveProposals'[r] = {}
      BY <1>3, <1>6 DEF ActiveProposals
    <2> QED
      BY <1>1, <1>2, <2>1, CommitActive
  <1>8. Lifecycle!Finish(r)
    BY <1>3, <1>4, <1>7, SameService
    DEF Lifecycle!Finish, Lifecycle!Set, Lifecycle!CanRecordExecutionResult
  <1> QED
    BY <1>3, <1>8 DEF Lifecycle!Next

\* propose_tool or resolve_approval of the current run and its open proposal.
LEMMA ProposalRefines ==
    ASSUME IndInv, IndInv', NEW q \in Requests, UpdateProposal(q)
    PROVE  Lifecycle!Next
  <1> DEFINE h == req[q]
  <1>1. PICK r : r = h.run
    OBVIOUS
  <1>2. Commits(q)
    BY ProposalCommits
  <1>3. /\ r \in RunIds /\ runs[r] = h.snap /\ runs[r] # None
        /\ runs[r] \in AgentRun /\ runs'[r] = h.next /\ runs'[r] # None
        /\ h.call \in CallIds /\ h.proposal \in Proposal
    BY <1>1, <1>2, CommitIsCurrent, CommitFrame, PendingWrite, NoneAssumption
    DEF Commits, UpdateProposal
  <1>4. ProposeStep(h) \/ ResolveStep(h)
    BY DEF UpdateProposal, IndInv, PendingWritesAreCurrent, HandlerIsCurrent
  <1>5. ASSUME h.next.status \in {"awaiting_approval", "executing"}
        PROVE  /\ runs' = [runs EXCEPT ![r] = h.next]
               /\ ActiveProposals' = [ActiveProposals EXCEPT ![r] = {h.proposal}]
    <2>1. PICK closed \in BOOLEAN : closed = (h.next.status \in Terminal)
      <3>1. (h.next.status \in Terminal) \in BOOLEAN
        OBVIOUS
      <3> QED
        BY <3>1
    <2>2. proposals'[h.call] = [run |-> r, closed |-> closed, proposal |-> h.proposal]
      BY <1>1, <1>3, <2>1 DEF UpdateProposal, IndInv, TypeOK
    <2>3. /\ proposals'[h.call] # None /\ proposals'[h.call].run = r
          /\ ~proposals'[h.call].closed
      <3>1. ~closed
        BY <1>5, <2>1 DEF Terminal
      <3>2. proposals'[h.call] \in ProposalRow
        BY <1>3, <2>2 DEF ProposalRow
      <3> QED
        BY <2>2, <3>1, <3>2, NoneAssumption
    <2>4. h.call \in Open(r)'
      BY <1>3, <2>3 DEF Open
    <2>5. Open(r)' = {h.call}
      BY <1>3, <1>5, <2>4 DEF IndInv, OpenProposalFollowsStatus, OpenFitsStatus
    <2>6. proposals'[h.call].proposal = h.proposal
      BY <2>2
    <2>7. ActiveProposals'[r] = {h.proposal}
      BY <1>3, <2>5, <2>6 DEF ActiveProposals
    <2> QED
      BY <1>1, <1>2, <2>7, CommitActive
  <1>6. CASE ProposeStep(h)
    <2>1. PICK call \in CallRequests :
             /\ CanProposeTool(runs[r], call)
             /\ Evaluate(call, runs[r].workspace) # "deny"
             /\ h.next = ProposedRun(runs[r], call)
             /\ h.proposal = NewProposal(runs[r], call)
      BY <1>3, <1>6 DEF ProposeStep
    <2>2. h.next.status \in {"awaiting_approval", "executing"}
      BY <1>3, <2>1, ProposeTool
    <2>3. Lifecycle!Propose(r)
      BY <1>3, <1>5, <2>1, <2>2, SameService DEF Lifecycle!Propose, Lifecycle!Set
    <2> QED
      BY <1>3, <2>3 DEF Lifecycle!Next
  <1>7. CASE ResolveStep(h)
    <2>1. PICK p \in Proposal, d \in {"approved", "rejected"} :
             /\ CanResolveApproval(runs[r], p, d)
             /\ h.next = TransitionTo(runs[r], ResolvedStatus(d))
             /\ h.proposal = [p EXCEPT !.approval = d]
             /\ h.call \in Open(r) /\ proposals[h.call].proposal = p
      BY <1>1, <1>3, <1>7 DEF ResolveStep
    <2>2. p \in ActiveProposals[r]
      BY <1>3, <2>1 DEF ActiveProposals
    <2>3. /\ CanTransition(runs[r], ResolvedStatus(d))
          /\ ResolvedStatus(d) \in AgentStatus
      BY <2>1 DEF CanResolveApproval, ResolvedStatus, AgentStatus
    <2>4. h.next.status = ResolvedStatus(d)
      BY <1>3, <2>1, <2>3, TransitionToRun DEF CanTransition
    <2>5. /\ runs' = [runs EXCEPT ![r] = h.next]
          /\ ActiveProposals' = [ActiveProposals EXCEPT ![r] =
                IF d = "approved" THEN {[p EXCEPT !.approval = d]} ELSE {}]
      <3>1. CASE d = "approved"
        BY <1>5, <2>1, <2>4, <3>1 DEF ResolvedStatus
      <3>2. CASE d = "rejected"
        <4>1. Open(r)' = {}
          BY <1>3, <2>4, <3>2
          DEF IndInv, OpenProposalFollowsStatus, OpenFitsStatus, ResolvedStatus
        <4>2. ActiveProposals'[r] = {}
          BY <1>3, <4>1 DEF ActiveProposals
        <4> QED
          BY <1>1, <1>2, <3>2, <4>2, CommitActive
      <3> QED
        BY <3>1, <3>2
    <2>6. Lifecycle!Resolve(r)
      BY <1>3, <2>1, <2>2, <2>5, SameService DEF Lifecycle!Resolve, Lifecycle!Set
    <2> QED
      BY <1>3, <2>6 DEF Lifecycle!Next
  <1> QED
    BY <1>4, <1>6, <1>7

\* A new run has no proposal.
LEMMA CreateRefines ==
    ASSUME IndInv, NEW r \in RunIds, CreateAgentRun(r)
    PROVE  Lifecycle!Next
  <1>1. Open(r) = {}
    BY DEF IndInv, OpenProposalFollowsStatus, OpenFitsStatus, CreateAgentRun
  <1>2. ActiveProposals' = ActiveProposals /\ ActiveProposals[r] = {}
    BY <1>1 DEF ActiveProposals, Open, CreateAgentRun
  <1>3. ActiveProposals' = [ActiveProposals EXCEPT ![r] = {}]
    BY <1>2 DEF ActiveProposals
  <1>4. \A n, w : Lifecycle!NewRun(n, w) = NewRun(n, w)
    BY DEF Lifecycle!NewRun, NewRun
  <1>5. Lifecycle!StartRun(r)
    BY <1>3, <1>4 DEF CreateAgentRun, Lifecycle!StartRun, Lifecycle!Set
  <1> QED
    BY <1>5 DEF Lifecycle!Next

\* The concurrent API implements the atomic service operations.
THEOREM Refinement == Spec => ImplementsLifecycle
  <1>1. Init => Lifecycle!Init
    BY DEF Init, Lifecycle!Init, ActiveProposals, Open
  <1>2. IndInv /\ IndInv' /\ [Next]_vars => [Lifecycle!Next]_(Lifecycle!vars)
    <2> SUFFICES ASSUME IndInv, IndInv', [Next]_vars
                 PROVE  Lifecycle!Next \/ UNCHANGED Lifecycle!vars
      OBVIOUS
    <2>1. CASE UNCHANGED tables
      BY <2>1 DEF tables, Lifecycle!vars, ActiveProposals, Open
    <2>2. CASE UNCHANGED vars
      BY <2>2 DEF vars, Lifecycle!vars, ActiveProposals, Open
    <2> QED
      BY <2>1, <2>2, StepShape, CreateRefines, UpdateRefines, CancelRefines,
         ProposalRefines, ResultRefines
  <1> QED
    BY Invariance, <1>1, <1>2, PTL DEF Spec, ImplementsLifecycle, Lifecycle!Spec

--------------------------------------------------------------------------------
(***************************************************************************)
(* The step counter of a run against its audited calls                     *)
(***************************************************************************)

\* The calls of run r that were let through to execution.
Audited(r) == {c \in CallIds : /\ proposals[c] # None
                               /\ proposals[c].run = r
                               /\ Authorised(proposals[c].proposal)}

\* A run counts its audited calls, and no call names a run before it exists.
StepsCounted(r) ==
    /\ IsFiniteSet(Audited(r))
    /\ runs[r] = None => Audited(r) = {}
    /\ runs[r] # None => runs[r].step_count = Cardinality(Audited(r))

AuditInv == \A r \in RunIds : StepsCounted(r)

--------------------------------------------------------------------------------
(***************************************************************************)
(* What a transaction does to the audited calls                            *)
(***************************************************************************)

\* Those of other runs stay as they are.
LEMMA AuditFrame ==
    ASSUME IndInv, NEW q \in Requests, Commits(q), NEW r \in RunIds \ {req[q].run}
    PROVE  Audited(r)' = Audited(r)
  <1>1. \A c \in CallIds :
           \/ proposals'[c] = proposals[c]
           \/ /\ proposals'[c].run # r
              /\ proposals[c] = None \/ proposals[c].run # r
    BY DEF Commits, WritesOwnRows
  <1> QED
    BY <1>1 DEF Audited

\* Rows that are closed keep their authorisation.
LEMMA ClosingAudits ==
    ASSUME NEW r,
           \A c \in CallIds :
              \/ proposals'[c] = proposals[c]
              \/ /\ proposals[c] # None /\ proposals'[c] # None
                 /\ proposals'[c].run = proposals[c].run
                 /\ proposals'[c].proposal = proposals[c].proposal
    PROVE  Audited(r)' = Audited(r)
  BY DEF Audited, Authorised

\* transition_to counts a step only into executing.
LEMMA TransitionCounts ==
    ASSUME NEW run \in AgentRun, NEW s \in AgentStatus
    PROVE  TransitionTo(run, s).step_count =
              IF s = "executing" THEN run.step_count + 1 ELSE run.step_count
  BY DEF TransitionTo

\* update, cancel_run and complete_proposal let no call through.
LEMMA OthersCountNothing ==
    ASSUME IndInv, NEW q \in Requests, Update(q) \/ CancelRun(q) \/ CompleteProposal(q),
           NEW r, r = req[q].run
    PROVE  /\ Commits(q)
           /\ Audited(r)' = Audited(r)
           /\ runs'[r].step_count = runs[r].step_count
  <1> DEFINE h == req[q]
  <1>1. Commits(q)
    BY UpdateCommits, CancelCommits, ResultCommits
  <1>2. /\ r \in RunIds /\ runs[r] = h.snap /\ h.snap \in AgentRun /\ runs'[r] = h.next
        /\ HandlerIsCurrent(h)
    BY <1>1, CommitIsCurrent, CommitFrame DEF Commits, IndInv, PendingWritesAreCurrent
  <1>3. proposals \in [CallIds -> ProposalRow \cup {None}]
    BY DEF IndInv, TypeOK
  <1>4. CASE Update(q)
    <2>1. PICK s \in {"planning", "clarifying", "completed", "failed"} :
             h.next = TransitionTo(h.snap, s)
      BY <1>2, <1>4 DEF Update, HandlerIsCurrent, UpdateStep
    <2>2. h.next.step_count = h.snap.step_count
      BY <1>2, <2>1, TransitionCounts DEF AgentStatus
    <2>3. Audited(r)' = Audited(r)
      BY <1>4 DEF Update, Audited, Authorised
    <2> QED
      BY <1>1, <1>2, <2>2, <2>3
  <1>5. CASE CancelRun(q)
    <2>1. h.next.step_count = h.snap.step_count
      BY <1>2, <1>5, TransitionCounts
      DEF CancelRun, HandlerIsCurrent, CancelStep, AgentStatus
    <2>2. ASSUME NEW c \in CallIds
          PROVE  \/ proposals'[c] = proposals[c]
                 \/ /\ proposals[c] # None /\ proposals'[c] # None
                    /\ proposals'[c].run = proposals[c].run
                    /\ proposals'[c].proposal = proposals[c].proposal
      <3>1. CASE c \in Open(r)
        <4>1. /\ proposals'[c] = [proposals[c] EXCEPT !.closed = TRUE]
              /\ proposals[c] \in ProposalRow /\ proposals[c] # None
          BY <1>3, <1>5, <3>1 DEF CancelRun, WithoutOpen, Open
        <4>2. proposals'[c] \in ProposalRow
          BY <4>1 DEF ProposalRow
        <4> QED
          BY <4>1, <4>2, NoneAssumption DEF ProposalRow
      <3>2. CASE c \notin Open(r)
        BY <1>5, <3>2 DEF CancelRun, WithoutOpen
      <3> QED
        BY <3>1, <3>2
    <2> QED
      BY <1>1, <1>2, <2>1, <2>2, ClosingAudits
  <1>6. CASE CompleteProposal(q)
    <2>1. PICK ok \in BOOLEAN : h.next = TransitionTo(h.snap, ResultStatus(ok))
      BY <1>2, <1>6 DEF CompleteProposal, HandlerIsCurrent, ResultStep
    <2>2. h.next.step_count = h.snap.step_count
      BY <1>2, <2>1, TransitionCounts DEF ResultStatus, AgentStatus
    <2>3. ASSUME NEW c \in CallIds
          PROVE  \/ proposals'[c] = proposals[c]
                 \/ /\ proposals[c] # None /\ proposals'[c] # None
                    /\ proposals'[c].run = proposals[c].run
                    /\ proposals'[c].proposal = proposals[c].proposal
      <3>1. CASE c = h.call
        <4>1. /\ proposals'[c] = [proposals[c] EXCEPT !.closed = TRUE]
              /\ proposals[c] \in ProposalRow /\ proposals[c] # None
          BY <1>3, <1>6, <3>1 DEF CompleteProposal, CanComplete, Open
        <4>2. proposals'[c] \in ProposalRow
          BY <4>1 DEF ProposalRow
        <4> QED
          BY <4>1, <4>2, NoneAssumption DEF ProposalRow
      <3>2. CASE c # h.call
        BY <1>3, <1>6, <3>2 DEF CompleteProposal
      <3> QED
        BY <3>1, <3>2
    <2> QED
      BY <1>1, <1>2, <2>2, <2>3, ClosingAudits
  <1> QED
    BY <1>4, <1>5, <1>6

\* propose_tool and resolve_approval count a step exactly when they let their
\* call through.
LEMMA ProposalCounts ==
    ASSUME IndInv, NEW q \in Requests, UpdateProposal(q), NEW r, r = req[q].run
    PROVE  /\ Commits(q)
           /\ \/ /\ Audited(r)' = Audited(r)
                 /\ runs'[r].step_count = runs[r].step_count
              \/ /\ req[q].call \notin Audited(r)
                 /\ Audited(r)' = Audited(r) \cup {req[q].call}
                 /\ runs'[r].step_count = runs[r].step_count + 1
  <1> DEFINE h == req[q]
  <1>1. Commits(q)
    BY ProposalCommits
  <1>2. /\ r \in RunIds /\ runs[r] = h.snap /\ h.snap \in AgentRun /\ runs'[r] = h.next
        /\ h.call \in CallIds /\ h.proposal \in Proposal
        /\ ProposeStep(h) \/ ResolveStep(h)
    BY <1>1, CommitIsCurrent, CommitFrame, PendingWrite
    DEF Commits, UpdateProposal, IndInv, PendingWritesAreCurrent, HandlerIsCurrent
  <1>3. /\ proposals'[h.call] # None /\ proposals'[h.call].run = r
        /\ proposals'[h.call].proposal = h.proposal
        /\ \A c \in CallIds \ {h.call} : proposals'[c] = proposals[c]
    <2>1. PICK closed \in BOOLEAN : closed = (h.next.status \in Terminal)
      <3>1. (h.next.status \in Terminal) \in BOOLEAN
        OBVIOUS
      <3> QED
        BY <3>1
    <2> DEFINE row == [run |-> r, closed |-> closed, proposal |-> h.proposal]
    <2>2. proposals' = [proposals EXCEPT ![h.call] = row]
      BY <2>1 DEF UpdateProposal
    <2>3. row \in ProposalRow
      BY <1>2 DEF ProposalRow
    <2> QED
      BY <1>2, <2>2, <2>3, NoneAssumption DEF IndInv, TypeOK
  <1>4. ASSUME h.call \notin Audited(r), Authorised(h.proposal),
               h.next.step_count = h.snap.step_count + 1
        PROVE  /\ Audited(r)' = Audited(r) \cup {h.call}
               /\ runs'[r].step_count = runs[r].step_count + 1
    BY <1>2, <1>3, <1>4 DEF Audited
  <1>5. ASSUME h.call \notin Audited(r), ~Authorised(h.proposal),
               h.next.step_count = h.snap.step_count
        PROVE  /\ Audited(r)' = Audited(r)
               /\ runs'[r].step_count = runs[r].step_count
    BY <1>2, <1>3, <1>5 DEF Audited
  <1>6. CASE ProposeStep(h)
    <2>1. h.call \notin Audited(r)
      BY <1>6 DEF ProposeStep, Audited
    <2>2. PICK call \in CallRequests :
             /\ CanProposeTool(h.snap, call)
             /\ Evaluate(call, h.snap.workspace) # "deny"
             /\ h.next = ProposedRun(h.snap, call)
             /\ h.proposal = NewProposal(h.snap, call)
      BY <1>6 DEF ProposeStep
    <2> DEFINE d == Evaluate(call, h.snap.workspace)
    <2>3. /\ d \in {"allow", "require_approval"} /\ Registered(h.proposal)
          /\ d = "allow" => call.risk = "read"
      <3>1. Registered(h.proposal)
        BY <1>2, <2>2, ProposeTool
      <3> QED
        BY <2>2, <3>1, CallRequestsAssumption, PolicyGatesWrites DEF ToolPolicyDecision
    <2>4. h.next = TransitionTo(h.snap, ProposedStatus(d))
      BY <2>2 DEF ProposedRun
    <2>5. CASE d = "allow"
      <3>1. h.next.step_count = h.snap.step_count + 1
        BY <1>2, <2>4, <2>5, TransitionCounts DEF ProposedStatus, AgentStatus
      <3>2. Authorised(h.proposal)
        BY <2>2, <2>3, <2>5 DEF NewProposal, Authorised
      <3> QED
        BY <1>1, <1>4, <2>1, <3>1, <3>2
    <2>6. CASE d = "require_approval"
      <3>1. h.next.step_count = h.snap.step_count
        BY <1>2, <2>4, <2>6, TransitionCounts DEF ProposedStatus, AgentStatus
      <3>2. ~Authorised(h.proposal)
        BY <2>2, <2>6 DEF NewProposal, Authorised
      <3> QED
        BY <1>1, <1>5, <2>1, <3>1, <3>2
    <2> QED
      BY <2>3, <2>5, <2>6
  <1>7. CASE ResolveStep(h)
    <2>1. PICK p \in Proposal, d \in {"approved", "rejected"} :
             /\ CanResolveApproval(h.snap, p, d)
             /\ h.next = TransitionTo(h.snap, ResolvedStatus(d))
             /\ h.proposal = [p EXCEPT !.approval = d]
             /\ h.call \in Open(r) /\ proposals[h.call].proposal = p
      BY <1>2, <1>7 DEF ResolveStep
    <2>2. p.policy = "require_approval" /\ p.approval = "pending" /\ Registered(p)
      <3>1. h.snap.status = "awaiting_approval"
        BY <2>1 DEF CanResolveApproval, HasPendingApproval
      <3>2. AwaitsDecision(p)
        BY <1>2, <2>1, <3>1 DEF IndInv, OpenProposalFollowsStatus, OpenFitsStatus
      <3> QED
        BY <3>2 DEF AwaitsDecision
    <2>3. h.call \notin Audited(r)
      BY <2>1, <2>2 DEF Audited, Authorised
    <2>4. /\ h.proposal.policy = "require_approval" /\ h.proposal.approval = d
          /\ Registered(h.proposal)
      BY <2>1, <2>2 DEF Proposal, Registered
    <2>5. CASE d = "approved"
      <3>1. h.next.step_count = h.snap.step_count + 1
        BY <1>2, <2>1, <2>5, TransitionCounts DEF ResolvedStatus, AgentStatus
      <3> QED
        BY <1>1, <1>4, <2>3, <2>4, <2>5, <3>1 DEF Authorised
    <2>6. CASE d = "rejected"
      <3>1. h.next.step_count = h.snap.step_count
        BY <1>2, <2>1, <2>6, TransitionCounts DEF ResolvedStatus, AgentStatus
      <3> QED
        BY <1>1, <1>5, <2>3, <2>4, <2>6, <3>1 DEF Authorised
    <2> QED
      BY <2>5, <2>6
  <1> QED
    BY <1>2, <1>6, <1>7

--------------------------------------------------------------------------------
(***************************************************************************)
(* The invariant                                                           *)
(***************************************************************************)

\* A transaction counts the calls it lets through.
LEMMA CommitCounts ==
    ASSUME IndInv, AuditInv, NEW q \in Requests,
           Update(q) \/ CancelRun(q) \/ UpdateProposal(q) \/ CompleteProposal(q)
    PROVE  AuditInv'
  <1>1. PICK r : r = req[q].run
    OBVIOUS
  <1>2. Commits(q)
    BY UpdateCommits, CancelCommits, ProposalCommits, ResultCommits
  <1>3. /\ r \in RunIds /\ runs[r] # None /\ runs'[r] # None
        /\ \A x \in RunIds \ {r} : runs'[x] = runs[x]
    BY <1>1, <1>2, CommitIsCurrent, CommitFrame, NoneAssumption DEF Commits
  <1>4. StepsCounted(r)
    BY <1>3 DEF AuditInv
  <1>5. StepsCounted(r)'
    <2>1. CASE /\ Audited(r)' = Audited(r)
               /\ runs'[r].step_count = runs[r].step_count
      BY <1>3, <1>4, <2>1 DEF StepsCounted
    <2>2. CASE /\ req[q].call \notin Audited(r)
               /\ Audited(r)' = Audited(r) \cup {req[q].call}
               /\ runs'[r].step_count = runs[r].step_count + 1
      <3> DEFINE old == Audited(r)
                 new == Audited(r)'
      <3>1. IsFiniteSet(old) /\ runs[r].step_count = Cardinality(old)
        BY <1>3, <1>4 DEF StepsCounted
      <3> HIDE DEF old, new
      <3>2. new = old \cup {req[q].call} /\ req[q].call \notin old
        BY <2>2 DEF old, new
      <3>3. IsFiniteSet(new) /\ Cardinality(new) = Cardinality(old) + 1
        BY <3>1, <3>2, FS_AddElement
      <3>4. IsFiniteSet(new) /\ runs'[r].step_count = Cardinality(new)
        BY <2>2, <3>1, <3>3
      <3> QED
        BY <1>3, <3>4 DEF StepsCounted, new
    <2>3. CASE UpdateProposal(q)
      BY <1>1, <2>1, <2>2, <2>3, ProposalCounts
    <2>4. CASE ~UpdateProposal(q)
      BY <1>1, <2>1, <2>4, OthersCountNothing
    <2> QED
      BY <2>3, <2>4
  <1>6. ASSUME NEW x \in RunIds \ {r} PROVE StepsCounted(x)'
    <2>1. Audited(x)' = Audited(x) /\ runs'[x] = runs[x] /\ StepsCounted(x)
      BY <1>1, <1>2, <1>3, AuditFrame DEF AuditInv
    <2> QED
      BY <2>1 DEF StepsCounted
  <1> QED
    BY <1>5, <1>6 DEF AuditInv

\* A new run has no step and no call.
LEMMA CreateCounts ==
    ASSUME IndInv, AuditInv, NEW r \in RunIds, CreateAgentRun(r)
    PROVE  AuditInv'
  <1>1. PICK n \in 1 .. MAX_AGENT_STEPS, w \in Workspaces :
           runs' = [runs EXCEPT ![r] = NewRun(n, w)]
    BY DEF CreateAgentRun
  <1>2. /\ runs[r] = None /\ proposals' = proposals
        /\ runs'[r].step_count = 0
        /\ \A x \in RunIds \ {r} : runs'[x] = runs[x]
    BY <1>1 DEF CreateAgentRun, IndInv, TypeOK, NewRun
  <1>3. ASSUME NEW x \in RunIds PROVE StepsCounted(x)'
    <2>1. StepsCounted(x) /\ Audited(x)' = Audited(x)
      BY <1>2 DEF AuditInv, Audited, Authorised
    <2>2. CASE x = r
      <3>1. Audited(x) = {} /\ IsFiniteSet({}) /\ Cardinality({}) = 0
        BY <1>2, <2>1, <2>2, FS_EmptySet DEF StepsCounted
      <3>2. runs'[x] # None
        <4>1. NewRun(n, w) \in AgentRun
          BY StepsAssumption DEF NewRun, AgentRun, AgentStatus
        <4> QED
          BY <1>1, <2>2, <4>1, NoneAssumption DEF IndInv, TypeOK
      <3> QED
        BY <1>2, <2>1, <2>2, <3>1, <3>2 DEF StepsCounted
    <2>3. CASE x # r
      BY <1>2, <2>1, <2>3 DEF StepsCounted
    <2> QED
      BY <2>2, <2>3
  <1> QED
    BY <1>3 DEF AuditInv

\* The step counter of a run is the number of its calls that were let through
\* to execution, whatever handlers interleave, conflict or stop.
THEOREM StepSafety == Spec => []StepsAreAudited
  <1>1. Init => AuditInv
    BY FS_EmptySet DEF Init, AuditInv, StepsCounted, Audited
  <1>2. IndInv /\ AuditInv /\ [Next]_vars => AuditInv'
    <2> SUFFICES ASSUME IndInv, AuditInv, [Next]_vars PROVE AuditInv'
      OBVIOUS
    <2>1. CASE UNCHANGED tables
      BY <2>1 DEF tables, AuditInv, StepsCounted, Audited, Authorised
    <2>2. CASE UNCHANGED vars
      BY <2>2 DEF vars, AuditInv, StepsCounted, Audited, Authorised
    <2> QED
      BY <2>1, <2>2, StepShape, CreateCounts, CommitCounts
  <1>3. AuditInv => StepsAreAudited
    BY DEF AuditInv, StepsCounted, Audited, StepsAreAudited
  <1> QED
    BY Invariance, <1>1, <1>2, <1>3, PTL DEF Spec

--------------------------------------------------------------------------------
(***************************************************************************)
(* No handler goes on for ever                                             *)
(***************************************************************************)

\* What the transactions store: only planning the next step goes on planning.
LEMMA CommitsLeavePlanning ==
    ASSUME IndInv, NEW q \in Requests, req[q].pc \in Writing \ {"update"}
    PROVE  ~(req[q].op = "next" /\ req[q].next.status = "planning")
  <1> DEFINE h == req[q]
  <1>1. /\ HandlerIsCurrent(h) /\ h.snap \in AgentRun
        /\ h.pc \in {"cancel_run", "update_proposal", "complete_proposal"}
    BY PendingWrite DEF IndInv, PendingWritesAreCurrent, ReadFrom, Writing
  <1>2. CASE h.pc = "cancel_run"
    BY <1>1, <1>2 DEF HandlerIsCurrent, CancelStep
  <1>3. CASE h.pc = "complete_proposal"
    BY <1>1, <1>3 DEF HandlerIsCurrent, ResultStep
  <1>4. CASE h.pc = "update_proposal" /\ ProposeStep(h)
    <2>1. PICK call \in CallRequests :
             /\ CanProposeTool(h.snap, call)
             /\ Evaluate(call, h.snap.workspace) # "deny"
             /\ h.next = ProposedRun(h.snap, call)
      BY <1>4 DEF ProposeStep
    <2> QED
      BY <1>1, <2>1, ProposeTool
  <1>5. CASE h.pc = "update_proposal" /\ ResolveStep(h)
    BY <1>5 DEF ResolveStep
  <1> QED
    BY <1>1, <1>2, <1>3, <1>4, <1>5 DEF HandlerIsCurrent

\* Each step of a handler, an abort included, leaves it fewer.
LEMMA HandlerDescends ==
    ASSUME IndInv, NEW q \in Requests, HandlerStep(q) \/ Abort(q)
    PROVE  /\ req[q].pc \in Pending
           /\ StepsLeft(req[q]) \in 1 .. 5
           /\ StepsLeft(req'[q]) \in 0 .. 4
           /\ StepsLeft(req'[q]) < StepsLeft(req[q])
  <1> DEFINE h == req[q]
  <1>1. req \in [Requests -> Request] /\ h \in Request
    BY DEF IndInv, TypeOK
  <1>2. ASSUME NEW op, NEW r, NEW response, Await(q, Answer(op, r, response))
        PROVE  StepsLeft(req'[q]) = 0
    BY <1>1, <1>2 DEF Await, Answer, StepsLeft, Writing
  <1>3. h.pc \in Pending => StepsLeft(h) \in 1 .. 5
    BY DEF StepsLeft, Pending, Writing
  <1>4. h.pc \in Writing => StepsLeft(h) \in {2, 5}
    BY DEF StepsLeft, Writing
  <1>5. CASE PlannerFails(q) \/ DecisionFails(q) \/ PlannerDecides(q, "clarifying")
             \/ PlannerDecides(q, "completed")
    <2>1. /\ h.pc \in {"planner", "repair"} /\ h.next \in AgentRun
          /\ HandlerIsCurrent(h)
      BY <1>5 DEF PlannerFails, DecisionFails, PlannerDecides, IndInv,
         PendingWritesAreCurrent, HandlerIsCurrent, ReadFrom
    <2>2. PICK s \in {"clarifying", "completed", "failed"}, p \in Proposal \cup {None} :
             Await(q, Suspended("update", "next", h.run, h.next,
                                TransitionTo(h.next, s), None, p))
      BY <1>5, NewProposalType DEF PlannerFails, DecisionFails, PlannerDecides, FailPlanningRun
    <2>3. TransitionTo(h.next, s).status = s
      BY <2>1 DEF TransitionTo
    <2>4. StepsLeft(req'[q]) = 2
      BY <1>1, <2>2, <2>3 DEF Await, Suspended, StepsLeft, Writing
    <2> QED
      BY <2>1, <2>4 DEF StepsLeft, Pending
  <1>6. CASE PlannerRepairs(q)
    BY <1>1, <1>6 DEF PlannerRepairs, Await, Request, StepsLeft, Pending
  <1>7. CASE PlannerProposesTool(q)
    <2>1. h.pc \in {"planner", "repair"}
      BY <1>7 DEF PlannerProposesTool
    <2>2. req'[q].pc = "update_proposal"
      BY <1>1, <1>7 DEF PlannerProposesTool, Await, Suspended
    <2>3. StepsLeft(req'[q]) = 2
      BY <2>2 DEF StepsLeft, Writing
    <2> QED
      BY <2>1, <2>3 DEF StepsLeft, Pending
  <1>8. CASE PlannerRaises(q) \/ StoreRefuses(q) \/ Notify(q) \/ Abort(q)
    <2>1. h.pc \in Pending
      BY <1>8 DEF PlannerRaises, StoreRefuses, Notify, Abort, Pending, Writing
    <2>2. \E response : Await(q, Answer(h.op, h.run, response))
      BY <1>8 DEF PlannerRaises, StoreRefuses, Conflict, Notify, Abort, Answered
    <2> QED
      BY <1>2, <1>3, <2>1, <2>2
  <1>9. CASE Update(q) \/ CancelRun(q) \/ UpdateProposal(q) \/ CompleteProposal(q)
    <2>1. h.pc \in Writing /\ Continue(q)
      BY <1>9 DEF Update, CancelRun, UpdateProposal, CompleteProposal, Writing
    <2>2. CASE h.op = "next" /\ h.next.status = "planning"
      <3>1. h.pc = "update"
        BY <2>1, <2>2, CommitsLeavePlanning
      <3>2. req'[q].pc = "planner"
        BY <1>1, <2>1, <2>2 DEF Continue, Await, Request
      <3> QED
        BY <2>2, <3>1, <3>2 DEF StepsLeft, Pending, Writing
    <2>3. CASE ~(h.op = "next" /\ h.next.status = "planning")
      <3>1. req'[q].pc \in {"notify", "done"}
        BY <1>1, <2>1, <2>3 DEF Continue, Await, Request, Answered, Answer
      <3>2. StepsLeft(req'[q]) \in {0, 1}
        BY <3>1 DEF StepsLeft, Writing
      <3> QED
        BY <1>4, <2>1, <3>2 DEF Pending
    <2> QED
      BY <2>2, <2>3
  <1> QED
    BY <1>5, <1>6, <1>7, <1>8, <1>9 DEF HandlerStep

\* A step of a handler moves no other.
LEMMA HandlerMovesOne ==
    ASSUME IndInv, NEW q \in Requests, HandlerStep(q)
    PROVE  \A q2 \in Requests \ {q} : req'[q2] = req[q2]
  <1>1. \E h : req' = [req EXCEPT ![q] = h]
    <2>1. CASE \/ PlannerFails(q) \/ PlannerRepairs(q) \/ DecisionFails(q)
               \/ PlannerDecides(q, "clarifying") \/ PlannerDecides(q, "completed")
               \/ PlannerProposesTool(q) \/ PlannerRaises(q)
      BY <2>1 DEF PlannerFails, PlannerRepairs, PlannerRaises, DecisionFails,
         PlannerDecides, PlannerProposesTool, FailPlanningRun, Await
    <2>2. CASE StoreRefuses(q) \/ Notify(q)
      BY <2>2 DEF StoreRefuses, Conflict, Notify, Await
    <2>3. CASE Update(q) \/ CancelRun(q) \/ UpdateProposal(q) \/ CompleteProposal(q)
      BY <2>3 DEF Update, CancelRun, UpdateProposal, CompleteProposal, Continue, Await
    <2> QED
      BY <2>1, <2>2, <2>3 DEF HandlerStep
  <1> QED
    BY <1>1 DEF IndInv, TypeOK

\* A request that has been received is answered after at most five steps of its
\* handler, whatever its planner, its store and the other requests do.
THEOREM HandlersEnd ==
    Spec => [][\A q \in Requests :
                  req[q].pc \in Pending /\ req'[q] # req[q]
                  => StepsLeft(req'[q]) < StepsLeft(req[q])]_vars
  <1>1. ASSUME IndInv, Next, NEW q \in Requests, req[q].pc \in Pending, req'[q] # req[q]
        PROVE  StepsLeft(req'[q]) < StepsLeft(req[q])
    <2>1. HandlerStep(q) \/ Abort(q)
      <3>1. req \in [Requests -> Request]
        BY <1>1 DEF IndInv, TypeOK
      <3>2. ~\E r \in RunIds : CreateAgentRun(r)
        BY <1>1 DEF CreateAgentRun
      <3>3. PICK p \in Requests : Receive(p) \/ HandlerStep(p) \/ Abort(p) \/ Respond(p)
        BY <1>1, <3>2 DEF Next
      <3>4. CASE p = q
        <4>1. ~Receive(q)
          BY <1>1 DEF Receive, CancelAgentRun, BeginAgentPlanning, PlanNextAgentStep,
             ProposeAgentTool, ResolveAgentToolApproval, SubmitAgentToolResult,
             GetActiveAgentTool, Receives, Pending, Writing
        <4>2. ~Respond(q)
          BY <1>1 DEF Respond, Pending, Writing
        <4> QED
          BY <3>3, <3>4, <4>1, <4>2
      <3>5. CASE p # q
        <4>1. CASE HandlerStep(p)
          BY <1>1, <3>1, <3>5, <4>1, HandlerMovesOne
        <4>2. CASE Abort(p) \/ Respond(p)
          BY <1>1, <3>1, <3>5, <4>2 DEF Abort, Respond, Await
        <4>3. CASE Receive(p)
          BY <1>1, <3>1, <3>5, <4>3
          DEF Receive, CancelAgentRun, BeginAgentPlanning, PlanNextAgentStep,
              ProposeAgentTool, ResolveAgentToolApproval, SubmitAgentToolResult,
              GetActiveAgentTool, Await
        <4> QED
          BY <3>3, <4>1, <4>2, <4>3
      <3> QED
        BY <3>4, <3>5
    <2> QED
      BY <1>1, <2>1, HandlerDescends
  <1>2. IndInv /\ [Next]_vars =>
           [\A q \in Requests : req[q].pc \in Pending /\ req'[q] # req[q]
               => StepsLeft(req'[q]) < StepsLeft(req[q])]_vars
    BY <1>1
  <1> QED
    BY Invariance, <1>2, PTL DEF Spec

================================================================================
