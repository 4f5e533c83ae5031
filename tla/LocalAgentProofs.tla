---------------------------- MODULE LocalAgentProofs ----------------------------
(***************************************************************************)
(* Proofs about LocalAgent, for every number of runs and tool calls: the   *)
(* client adds no behaviour to the backend it talks to, runs no tool       *)
(* without its authorisation, and leaves no child process behind.          *)
(***************************************************************************)
EXTENDS LocalAgent, AgentApiProofs, FoldProofs

--------------------------------------------------------------------------------
(***************************************************************************)
(* The inductive invariant                                                 *)
(***************************************************************************)

\* The stored proposal of call c lets it run.  Its approval is not pending, so
\* no later step of the backend rewrites it.
Executable(c) ==
    /\ c \in CallIds /\ proposals[c] # None
    /\ Authorised(proposals[c].proposal)
    /\ proposals[c].proposal.approval # "pending"

\* Only a client that awaits an answer, or has given up on one, has a request
\* under way.
MainIsAwaited ==
    client.pc \in {"start", "create", "clarify", "decide", "execute"}
       => req["main"].pc = "idle"

\* A client past its proposal knows the call.
HasCall == client.pc \in {"decide", "approval", "reject", "execute", "submit"}
              => client.call \in CallIds

\* The body of an answer does not outlive it.
RepliesAreFresh ==
    client.pc \notin {"cancel", "exit"} /\ req["main"].pc = "idle"
       => reply = NoReply

\* A successful answer that names an executing call was sent after the commit
\* that authorised it.
ReplyIsAuthorised ==
    /\ client.pc \in {"tools", "next"}
    /\ req["main"].pc = "done" /\ req["main"].response = "ok"
    /\ reply.call # None /\ reply.status = "executing"
    => Executable(reply.call)

\* The user's approval is on its way, or has been answered.
DecisionIsSent ==
    client.pc = "approval" /\ client.ok /\ req["main"].pc # "idle" =>
       \/ /\ req["main"].pc = "update_proposal" /\ req["main"].op = "approval"
          /\ req["main"].call = client.call
          /\ req["main"].proposal.approval = "approved"
       \/ /\ req["main"].pc = "done"
          /\ req["main"].response = "ok" => Executable(client.call)

\* What runs, or ever ran, was let through.
RunsAreExecutable ==
    /\ client.pc = "execute" => Executable(client.call)
    /\ \A c \in CallIds : executed[c] # "no" => Executable(c)

\* A child belongs to the reading tool the client executes, and is no longer
\* running once an except clause has killed it.
ChildIsWatched ==
    /\ child # NoChild => /\ client.pc = "execute"
                          /\ proposals[client.call].proposal.risk = "read"
    /\ child.handler # "none" => child.state # "running"

\* The client's side of its exchange of requests with the backend.
ExchangeInv == /\ MainIsAwaited /\ HasCall
               /\ RepliesAreFresh /\ ReplyIsAuthorised /\ DecisionIsSent

\* What the client runs.
ToolInv == RunsAreExecutable /\ ChildIsWatched /\ NoChildOutlivesItsTool

ClientInv == LocalTypeOK /\ ExchangeInv /\ ToolInv

LocalInv == IndInv /\ ClientInv

--------------------------------------------------------------------------------
(***************************************************************************)
(* The client adds no behaviour to the backend                             *)
(***************************************************************************)

\* The three slots exist, and the client's run is one of the backend's.
LEMMA Slots == /\ "main" \in Requests /\ "cancel" \in Requests /\ "web" \in Requests
               /\ Run \in RunIds
  BY ClientAssumption

\* A run that names no limit has a step to take.
LEMMA Turns == DEFAULT_MAX_AGENT_STEPS \in Nat /\ DEFAULT_MAX_AGENT_STEPS >= 1
  <1>1. MAX_AGENT_STEPS \in Nat /\ DEFAULT_MAX_AGENT_STEPS \in 1 .. MAX_AGENT_STEPS
    BY ClientAssumption, StepsAssumption
  <1> QED
    BY <1>1

\* The steps of the client that send or receive nothing.
LocalStepOnly ==
    \/ SendCreate \/ GetRun \/ Clarify \/ Decide \/ Execute \/ StartTool
    \/ CollectTool \/ ToolTimeout \/ ReapTimedOut \/ ReapCancelled
    \/ Interrupt \/ InterruptTool \/ Timeout
    \/ \E state \in Ended : ToolEnds(state)

\* The steps in which the client, or a web page, sends a request.
SendStep == \/ SendPlan \/ SendTools \/ SendNext \/ SendApproval \/ SendResult
            \/ SendCancel \/ UseWebPages

\* The steps in which the client takes an answer.
GetStepAny == \/ GetPlanned \/ GetProposal \/ GetStep \/ GetApproval
              \/ GetRejection \/ GetResult \/ GetCancelled

\* The steps of LocalNext by what they have to do with the backend.
LEMMA StepKinds ==
    ASSUME LocalNext
    PROVE  \/ LocalStepOnly \/ SendStep \/ GetStepAny \/ CreateRun
           \/ \E q \in Requests : Backend(q) \/ BackendFails(q) \/ Discard(q)
  BY DEF LocalNext, ClientStep, LocalStepOnly, SendStep, GetStepAny

\* A local step does not touch the backend.
LEMMA LocalStepsAreLocal == ASSUME LocalStepOnly PROVE UNCHANGED vars
  <1>1. CASE SendCreate \/ GetRun \/ Clarify \/ Decide \/ Interrupt \/ Timeout
    BY <1>1 DEF SendCreate, GetRun, Clarify, Decide, Interrupt, Timeout
  <1>2. CASE \/ Execute \/ StartTool \/ CollectTool \/ ToolTimeout \/ ReapTimedOut
             \/ ReapCancelled \/ InterruptTool \/ \E state \in Ended : ToolEnds(state)
    BY <1>2 DEF Execute, StartTool, CollectTool, ToolTimeout, ReapTimedOut,
                ReapCancelled, InterruptTool, ToolEnds, Running
  <1> QED
    BY <1>1, <1>2 DEF LocalStepOnly

\* A sent request is received by the backend in the slot of its sender.
LEMMA SendsAreReceived ==
    ASSUME HasCall, SendStep
    PROVE  /\ UNCHANGED clientVars
           /\ \E q \in Requests : Receive(q)
  <1>1. CASE SendPlan
    BY <1>1, Slots DEF SendPlan, Sends, Receive
  <1>2. CASE SendTools
    BY <1>2, Slots DEF SendTools, Sends, Receive
  <1>3. CASE SendNext
    BY <1>3, Slots DEF SendNext, Sends, Receive
  <1>4. CASE SendApproval
    <2>1. client.call \in CallIds
      BY <1>4 DEF SendApproval, HasCall
    <2>2. ResolveAgentToolApproval("main", Run, client.call, "approved")
          \/ ResolveAgentToolApproval("main", Run, client.call, "rejected")
      BY <1>4 DEF SendApproval
    <2> QED
      BY <1>4, <2>1, <2>2, Slots DEF SendApproval, Receive
  <1>5. CASE SendResult
    <2>1. client.call \in CallIds
      BY <1>5 DEF SendResult, Sends, HasCall
    <2>2. \E ok \in BOOLEAN : SubmitAgentToolResult("main", Run, client.call, ok)
      <3>1. SubmitAgentToolResult("main", Run, client.call, client.ok)
        BY <1>5 DEF SendResult
      <3>2. CASE client.ok
        BY <3>1, <3>2 DEF SubmitAgentToolResult, ResultStatus
      <3>3. CASE ~client.ok
        BY <3>1, <3>3 DEF SubmitAgentToolResult, ResultStatus
      <3> QED
        BY <3>2, <3>3
    <2> QED
      BY <1>5, <2>1, <2>2, Slots DEF SendResult, Sends, Receive
  <1>6. CASE SendCancel
    BY <1>6, Slots DEF SendCancel, Sends, Receive
  <1>7. CASE UseWebPages
    <2>1. CASE CancelAgentRun("web", Run)
      BY <1>7, <2>1, Slots DEF UseWebPages, Receive
    <2>2. CASE \E c \in Open(Run), d \in {"approved", "rejected"} :
                  ResolveAgentToolApproval("web", Run, c, d)
      BY <1>7, <2>2, Slots DEF UseWebPages, Receive, Open
    <2> QED
      BY <1>7, <2>1, <2>2 DEF UseWebPages
  <1> QED
    BY <1>1, <1>2, <1>3, <1>4, <1>5, <1>6, <1>7 DEF SendStep

\* Taking an answer empties the slot it came from.
LEMMA AnswersAreTaken ==
    ASSUME GetStepAny
    PROVE  /\ \E q \in {"main", "cancel"} : Respond(q)
           /\ reply' = NoReply /\ UNCHANGED <<posted, executed, child>>
           /\ ~GetCancelled => Respond("main")
  BY DEF GetStepAny, GetPlanned, GetProposal, GetStep, GetApproval, GetRejection,
         GetResult, GetCancelled, Gets

\* Every step of the client and the backend together is a step of the backend,
\* or leaves its tables and handlers alone.
LEMMA BackendSteps == ASSUME HasCall, LocalNext PROVE [Next]_vars
  <1>1. CASE LocalStepOnly
    BY <1>1, LocalStepsAreLocal
  <1>2. CASE SendStep
    BY <1>2, SendsAreReceived DEF Next
  <1>3. CASE GetStepAny
    BY <1>3, AnswersAreTaken, Slots DEF Next
  <1>4. CASE CreateRun
    BY <1>4, Slots DEF CreateRun, Next
  <1>5. CASE \E q \in Requests : Backend(q) \/ BackendFails(q) \/ Discard(q)
    BY <1>5 DEF Backend, BackendFails, Discard, Next
  <1> QED
    BY <1>1, <1>2, <1>3, <1>4, <1>5, StepKinds

--------------------------------------------------------------------------------
(***************************************************************************)
(* What the backend does for the client                                    *)
(***************************************************************************)

\* A call that may run may always run, under the proposal it had.
LEMMA ExecutableStays ==
    ASSUME IndInv, [Next]_vars
    PROVE  \A c \in CallIds :
              Executable(c) => /\ Executable(c)'
                               /\ proposals'[c].proposal = proposals[c].proposal
  <1>1. CASE Next
    <2>1. \A c \in CallIds : Kept(c)
      BY <1>1, StepKeeps
    <2> QED
      BY <2>1 DEF Kept, Executable, Authorised
  <1>2. CASE UNCHANGED vars
    BY <1>2 DEF vars, Executable, Authorised
  <1> QED
    BY <1>1, <1>2

\* The row that update_proposal writes.
LEMMA StoredProposal ==
    ASSUME IndInv, NEW q \in Requests, UpdateProposal(q)
    PROVE  /\ req[q].call \in CallIds
           /\ proposals'[req[q].call] # None
           /\ proposals'[req[q].call].proposal = req[q].proposal
           /\ proposals'[req[q].call].closed => req[q].next.status \in Terminal
  <1> DEFINE h == req[q]
  <1>0. PICK closed \in BOOLEAN : closed = (h.next.status \in Terminal)
    <2>1. (h.next.status \in Terminal) \in BOOLEAN
      OBVIOUS
    <2> QED
      BY <2>1
  <1> DEFINE row == [run |-> h.run, closed |-> closed, proposal |-> h.proposal]
  <1>1. h.run \in RunIds /\ h.call \in CallIds /\ h.proposal \in Proposal
    BY PendingWrite DEF UpdateProposal, Writing
  <1>2. row \in ProposalRow /\ row # None
    BY <1>1, NoneAssumption DEF ProposalRow
  <1>3. proposals' = [proposals EXCEPT ![h.call] = row]
    BY <1>0 DEF UpdateProposal
  <1>4. proposals'[h.call] = row
    BY <1>1, <1>3 DEF IndInv, TypeOK
  <1>5. closed => h.next.status \in Terminal
    BY <1>0
  <1> HIDE DEF h
  <1> QED
    BY <1>1, <1>2, <1>4, <1>5 DEF h

\* The commit of a proposal or a decision that lets its call run: the row is
\* open, so the call has no result.
LEMMA ProposalLetsRun ==
    ASSUME IndInv, NEW q \in Requests, UpdateProposal(q),
           \/ req[q].next.status = "executing"
           \/ req[q].op = "approval" /\ req[q].proposal.approval = "approved"
    PROVE  \A c \in CallIds : c = req[q].call =>
              Executable(c)' /\ results'[c] = "none"
  <1> DEFINE h == req[q]
  <1>1. /\ h.snap \in AgentRun /\ h.pc = "update_proposal"
        /\ ProposeStep(h) \/ ResolveStep(h)
    BY DEF UpdateProposal, IndInv, PendingWritesAreCurrent, HandlerIsCurrent,
           Writing, ReadFrom
  <1>2. /\ Authorised(h.proposal) /\ h.proposal.approval # "pending"
        /\ h.next.status = "executing"
    <2>1. CASE ProposeStep(h)
      <3>1. PICK call \in CallRequests :
               /\ CanProposeTool(h.snap, call)
               /\ Evaluate(call, h.snap.workspace) # "deny"
               /\ h.next = ProposedRun(h.snap, call)
               /\ h.proposal = NewProposal(h.snap, call)
        BY <2>1 DEF ProposeStep
      <3>2. h.op # "approval"
        BY <2>1 DEF ProposeStep
      <3> QED
        BY <1>1, <3>1, <3>2, ProposeTool
    <2>2. CASE ResolveStep(h)
      <3>1. PICK p \in Proposal, d \in {"approved", "rejected"} :
               /\ CanResolveApproval(h.snap, p, d)
               /\ h.next = TransitionTo(h.snap, ResolvedStatus(d))
               /\ h.proposal = [p EXCEPT !.approval = d]
               /\ h.snap.version = runs[h.run].version
                  => h.call \in Open(h.run) /\ proposals[h.call].proposal = p
        BY <2>2 DEF ResolveStep
      <3>2. /\ h.run \in RunIds /\ runs[h.run] = h.snap
            /\ h.call \in Open(h.run) /\ proposals[h.call].proposal = p
        BY <1>1, <3>1, CommitIsCurrent DEF UpdateProposal, Writing
      <3>3. h.snap.status = "awaiting_approval"
        BY <3>1 DEF CanResolveApproval, HasPendingApproval
      <3>4. Registered(p)
        BY <3>2, <3>3
        DEF IndInv, OpenProposalFollowsStatus, OpenFitsStatus, AwaitsDecision
      <3>5. /\ h.proposal.policy = "require_approval" /\ h.proposal.approval = d
            /\ h.next.status = ResolvedStatus(d) /\ Registered(h.proposal)
        BY <3>1, <3>4 DEF CanResolveApproval, HasPendingApproval, Proposal, TransitionTo,
           Registered
      <3> QED
        BY <3>5 DEF Authorised, ResolvedStatus
    <2> QED
      BY <1>1, <2>1, <2>2
  <1>3. ~proposals'[h.call].closed
    BY <1>2, StoredProposal DEF Terminal
  <1>4. ASSUME NEW c \in CallIds, c = h.call PROVE results'[c] = "none"
    <2>1. ResultsAreAuthorised'
      BY ProposalCommits DEF IndInv
    <2> QED
      BY <1>3, <1>4, <2>1 DEF ResultsAreAuthorised
  <1> QED
    BY <1>2, <1>4, StoredProposal DEF Executable, Authorised

\* A step of a handler is the next of a pending one and moves no other.
LEMMA HandlerStepFrame ==
    ASSUME IndInv, NEW q \in Requests, HandlerStep(q)
    PROVE  /\ req[q].pc \in Pending
           /\ \A q2 \in Requests \ {q} : req'[q2] = req[q2]
  BY HandlerDescends, HandlerMovesOne

\* A handler that answers that a call executes has committed its proposal.
LEMMA HandlerReply ==
    ASSUME IndInv, NEW q \in Requests, HandlerStep(q)
    PROVE  /\ req[q].next \in AgentRun
           /\ req'[q].pc # "idle"
           /\ /\ req'[q].pc = "done" /\ req'[q].response = "ok"
              /\ req[q].next.status = "executing"
              => \A c \in CallIds : c = req[q].call =>
                    Executable(c)' /\ results'[c] = "none"
  <1> DEFINE h == req[q]
  <1>1. /\ h \in Request /\ HandlerIsCurrent(h) /\ HandlerNotifies(h)
        /\ req \in [Requests -> Request]
    BY DEF IndInv, TypeOK, PendingWritesAreCurrent, NotificationsFollowCommit
  <1>2. CASE \/ PlannerFails(q) \/ PlannerRepairs(q) \/ DecisionFails(q)
             \/ PlannerDecides(q, "clarifying") \/ PlannerDecides(q, "completed")
             \/ PlannerProposesTool(q)
    <2>1. h.next \in AgentRun
      BY <1>1, <1>2 DEF HandlerIsCurrent, ReadFrom, PlannerFails, PlannerRepairs,
         DecisionFails, PlannerDecides, PlannerProposesTool, Planning
    <2>2. req'[q].pc \in {"update", "repair", "update_proposal"}
      BY <1>1, <1>2 DEF PlannerFails, PlannerRepairs, DecisionFails, PlannerDecides,
         PlannerProposesTool, FailPlanningRun, Await, Suspended, Request
    <2> QED
      BY <2>1, <2>2
  <1>3. CASE PlannerRaises(q)
    BY <1>1, <1>3 
    DEF PlannerRaises, HandlerIsCurrent, ReadFrom, Await, Answered, Answer, Planning
  <1>4. CASE StoreRefuses(q)
    <2>1. h.pc \in Writing
      BY <1>4 DEF StoreRefuses, Writing
    <2>2. req'[q].pc = "done" /\ req'[q].response # "ok"
      BY <1>1, <1>4, RefusalIsAnswer DEF StoreRefuses, Conflict, Await, Answered, Answer
    <2> QED
      BY <2>1, <2>2, PendingWrite
  <1>5. CASE Notify(q)
    <2>1. /\ h.next \in AgentRun
          /\ h.next.status \in {"awaiting_approval", "completed", "failed"}
      BY <1>1, <1>5 DEF Notify, HandlerNotifies
    <2>2. req'[q].pc = "done"
      BY <1>1, <1>5 DEF Notify, Await, Answered, Answer
    <2> QED
      BY <2>1, <2>2
  <1>6. CASE Update(q) \/ CancelRun(q) \/ UpdateProposal(q) \/ CompleteProposal(q)
    <2>1. h.pc \in Writing
      BY <1>6 DEF Update, CancelRun, UpdateProposal, CompleteProposal, Writing
    <2>2. h.next \in AgentRun /\ h.snap \in AgentRun
      BY <1>1, <2>1, PendingWrite DEF ReadFrom
    <2>3. req'[q].pc \in {"planner", "notify", "done"}
      <3>1. Continue(q)
        BY <1>6 DEF Update, CancelRun, UpdateProposal, CompleteProposal
      <3> QED
        BY <1>1, <3>1 DEF Continue, Await, Answered, Answer, Request
    <2>4. h.next.status = "executing" => UpdateProposal(q)
      <3>1. CASE Update(q)
        BY <1>1, <2>2, <3>1 DEF Update, HandlerIsCurrent, UpdateStep, TransitionTo
      <3>2. CASE CancelRun(q)
        BY <1>1, <2>2, <3>2 DEF CancelRun, HandlerIsCurrent, CancelStep, TransitionTo
      <3>3. CASE CompleteProposal(q)
        <4>1. PICK s \in {"observing", "failed"} : h.next = TransitionTo(h.snap, s)
          BY <1>1, <3>3
          DEF CompleteProposal, HandlerIsCurrent, ResultStep, ResultStatus
        <4> QED
          BY <4>1 DEF TransitionTo
      <3>4. CASE UpdateProposal(q)
        BY <3>4
      <3> QED
        BY <1>6, <3>1, <3>2, <3>3, <3>4
    <2> QED
      BY <2>2, <2>3, <2>4, ProposalLetsRun
  <1> QED
    BY <1>2, <1>3, <1>4, <1>5, <1>6 DEF HandlerStep

--------------------------------------------------------------------------------
(***************************************************************************)
(* The client's invariant                                                  *)
(***************************************************************************)

\* The client has sent nothing and runs nothing.
LEMMA InitLocalInv == LocalInit => LocalInv
  <1> SUFFICES ASSUME LocalInit PROVE LocalInv
    OBVIOUS
  <1>1. IndInv
    BY InitIndInv DEF LocalInit
  <1>2. /\ client.pc = "start" /\ client.call = None
        /\ client \in [pc : ClientPC, mode : {"goal", "tool"},
                       turn : 0 .. DEFAULT_MAX_AGENT_STEPS - 1,
                       call : CallIds \cup {None}, ok : BOOLEAN, outcome : Outcomes]
    <2>1. PICK mode \in {"goal", "tool"} :
             client = [pc |-> "start", mode |-> mode, turn |-> 0, call |-> None,
                       ok |-> FALSE, outcome |-> "none"]
      BY DEF LocalInit
    <2>2. 0 \in 0 .. DEFAULT_MAX_AGENT_STEPS - 1
      BY Turns
    <2> QED
      BY <2>1, <2>2 DEF ClientPC, Outcomes
  <1>3. LocalTypeOK
    BY <1>2 DEF LocalInit, LocalTypeOK, NoReply, AgentStatus, NoChild, Child, ChildState
  <1>4. ExchangeInv
    BY <1>2, Slots DEF LocalInit, Init, Idle, ExchangeInv, MainIsAwaited, HasCall,
       RepliesAreFresh, ReplyIsAuthorised, DecisionIsSent
  <1>5. ToolInv
    BY <1>2 DEF LocalInit, ToolInv, RunsAreExecutable, ChildIsWatched,
       NoChildOutlivesItsTool, NoChild
  <1> QED
    BY <1>1, <1>3, <1>4, <1>5 DEF LocalInv, ClientInv

\* What runs stays authorised and watched while the backend moves on, and a
\* client that starts to execute has been authorised.
LEMMA ToolFrame ==
    ASSUME LocalInv, [Next]_vars, UNCHANGED <<executed, child>>,
           client.pc = "execute" => client' = client,
           client'.pc = "execute" => Executable(client'.call)
    PROVE  ToolInv'
  <1>1. \A c \in CallIds :
           Executable(c) => /\ Executable(c)'
                            /\ proposals'[c].proposal = proposals[c].proposal
    BY ExecutableStays DEF LocalInv
  <1>2. RunsAreExecutable'
    BY <1>1 DEF LocalInv, ClientInv, ToolInv, RunsAreExecutable, Executable, Authorised
  <1>3. ChildIsWatched'
    <2>1. child # NoChild =>
             /\ client.pc = "execute" /\ client' = client
             /\ client.call \in CallIds /\ Executable(client.call)
             /\ proposals[client.call].proposal.risk = "read"
      BY DEF LocalInv, ClientInv, ToolInv, ChildIsWatched, RunsAreExecutable, Executable
    <2>2. child # NoChild => proposals'[client'.call].proposal.risk = "read"
      BY <1>1, <2>1
    <2> QED
      BY <2>1, <2>2 DEF LocalInv, ClientInv, ToolInv, ChildIsWatched
  <1>4. NoChildOutlivesItsTool'
    BY DEF LocalInv, ClientInv, ToolInv, ChildIsWatched, NoChildOutlivesItsTool
  <1> QED
    BY <1>2, <1>3, <1>4 DEF ToolInv

\* A request under way in another slot than the client's, or a step of the
\* backend on no request, does not concern the exchange.
LEMMA ExchangeFrame ==
    ASSUME LocalInv, [Next]_vars, UNCHANGED <<client, reply>>,
           req'["main"] = req["main"]
    PROVE  ExchangeInv'
  <1>1. \A c \in CallIds : Executable(c) => Executable(c)'
    BY ExecutableStays DEF LocalInv
  <1>2. MainIsAwaited' /\ HasCall' /\ RepliesAreFresh'
    BY DEF LocalInv, ClientInv, ExchangeInv, MainIsAwaited, HasCall, RepliesAreFresh
  <1>3. ReplyIsAuthorised'
    BY <1>1 DEF LocalInv, ClientInv, ExchangeInv, ReplyIsAuthorised, Executable,
       Authorised
  <1>4. DecisionIsSent'
    BY <1>1 DEF LocalInv, ClientInv, ExchangeInv, DecisionIsSent, Executable,
       Authorised
  <1> QED
    BY <1>2, <1>3, <1>4 DEF ExchangeInv

\* A sent request waits for its transaction, or has been refused.
LEMMA SendKeepsExchange == ASSUME LocalInv, SendStep PROVE ExchangeInv'
  <1>1. UNCHANGED clientVars /\ [Next]_vars
    BY SendsAreReceived DEF LocalInv, ClientInv, ExchangeInv, Next
  <1>2. /\ req \in [Requests -> Request] /\ "main" \in Requests
        /\ "cancel" \in Requests /\ "web" \in Requests
    BY Slots DEF LocalInv, IndInv, TypeOK
  <1>3. CASE SendCancel \/ UseWebPages
    <2>1. req'["main"] = req["main"]
      <3>1. CASE SendCancel
        BY <1>2, <3>1 DEF SendCancel, CancelAgentRun, Await
      <3>2. CASE UseWebPages
        BY <1>2, <3>2 DEF UseWebPages, CancelAgentRun, ResolveAgentToolApproval, Await
      <3> QED
        BY <1>3, <3>1, <3>2
    <2> QED
      BY <1>1, <2>1, ExchangeFrame DEF clientVars
  <1>4. CASE SendPlan \/ SendTools \/ SendNext \/ SendApproval \/ SendResult
    <2>1. /\ client.pc \in {"plan", "tools", "next", "approval", "reject", "submit"}
          /\ req["main"].pc = "idle" /\ reply = NoReply
      BY <1>4 DEF SendPlan, SendTools, SendNext, SendApproval, SendResult, Sends,
         BeginAgentPlanning, ProposeAgentTool, PlanNextAgentStep,
         ResolveAgentToolApproval, SubmitAgentToolResult, Receives,
         LocalInv, ClientInv, ExchangeInv, RepliesAreFresh
    <2>2. req'["main"].pc # "idle"
      BY <1>2, <1>4 DEF SendPlan, SendTools, SendNext, SendApproval, SendResult,
         BeginAgentPlanning, ProposeAgentTool, PlanNextAgentStep,
         ResolveAgentToolApproval, SubmitAgentToolResult, Await, Suspended, Answer
    <2>3. client.pc = "approval" /\ client.ok =>
             \/ /\ req'["main"].pc = "update_proposal" /\ req'["main"].op = "approval"
                /\ req'["main"].call = client.call
                /\ req'["main"].proposal.approval = "approved"
             \/ req'["main"].pc = "done" /\ req'["main"].response # "ok"
      <3> SUFFICES ASSUME client.pc = "approval", client.ok
                   PROVE  \/ /\ req'["main"].pc = "update_proposal"
                             /\ req'["main"].op = "approval"
                             /\ req'["main"].call = client.call
                             /\ req'["main"].proposal.approval = "approved"
                          \/ req'["main"].pc = "done" /\ req'["main"].response # "ok"
        OBVIOUS
      <3> DEFINE p == proposals[client.call].proposal
      <3>1. ResolveAgentToolApproval("main", Run, client.call, "approved")
        BY <1>4 DEF SendPlan, SendTools, SendNext, SendApproval, SendResult, Sends
      <3>2. CASE \E r \in {"not_found", "conflict", "error"} :
                    req'["main"] = Answer("approval", Run, r)
        BY <3>2 DEF Answer
      <3>3. CASE /\ client.call \in Open(Run)
                 /\ req'["main"] =
                       Suspended("update_proposal", "approval", Run, runs[Run],
                                 TransitionTo(runs[Run], ResolvedStatus("approved")),
                                 client.call, [p EXCEPT !.approval = "approved"])
        <4>1. p \in Proposal
          BY <3>3 DEF Open, LocalInv, IndInv, TypeOK, ProposalRow
        <4> QED
          BY <3>3, <4>1 DEF Suspended, Proposal
      <3> QED
        BY <1>2, <3>1, <3>2, <3>3 DEF ResolveAgentToolApproval, Await
    <2> QED
      BY <1>1, <2>1, <2>2, <2>3
      DEF clientVars, LocalInv, ClientInv, ExchangeInv, MainIsAwaited, HasCall,
          RepliesAreFresh, ReplyIsAuthorised, DecisionIsSent, NoReply
  <1> QED
    BY <1>3, <1>4 DEF SendStep

\* The answer the backend gives the client is the one DecisionIsSent and
\* ReplyIsAuthorised describe.
LEMMA BackendKeepsExchange ==
    ASSUME LocalInv, NEW q \in Requests, Backend(q)
    PROVE  ExchangeInv'
  <1>1. HandlerStep(q) /\ UNCHANGED <<client, posted, executed, child>>
    BY DEF Backend
  <1>2. /\ IndInv /\ [Next]_vars /\ req \in [Requests -> Request]
        /\ "main" \in Requests
    BY <1>1, Slots DEF LocalInv, IndInv, TypeOK, Next
  <1>3. CASE q # "main"
    <2>1. req'["main"] = req["main"] /\ reply' = reply
      BY <1>1, <1>2, <1>3, HandlerStepFrame DEF Backend
    <2> QED
      BY <1>1, <1>2, <2>1, ExchangeFrame
  <1>4. CASE q = "main"
    <2> DEFINE h == req["main"]
    <2>1. /\ h.pc \in Pending /\ req'["main"].pc # "idle"
          /\ reply' = [status |-> h.next.status, call |-> h.call]
          /\ /\ req'["main"].pc = "done" /\ req'["main"].response = "ok"
             /\ h.next.status = "executing"
             => \A c \in CallIds : c = h.call => Executable(c)'
      BY <1>1, <1>2, <1>4, HandlerReply, HandlerStepFrame DEF Backend
    <2>2. h.call \in CallIds \cup {None}
      BY <1>2 DEF Request
    <2>3. MainIsAwaited' /\ HasCall' /\ RepliesAreFresh'
      BY <1>1, <2>1 DEF LocalInv, ClientInv, ExchangeInv, MainIsAwaited, HasCall,
         RepliesAreFresh, Pending, Writing, Planning
    <2>4. ReplyIsAuthorised'
      BY <2>1, <2>2 DEF ReplyIsAuthorised, Executable, Authorised
    <2>5. DecisionIsSent'
      <3> SUFFICES ASSUME client.pc = "approval", client.ok
                   PROVE  DecisionIsSent'
        BY <1>1 DEF DecisionIsSent
      <3>1. /\ h.pc = "update_proposal" /\ h.op = "approval"
            /\ h.call = client.call /\ h.proposal.approval = "approved"
        BY <2>1 DEF LocalInv, ClientInv, ExchangeInv, DecisionIsSent, Pending, Writing,
           Planning
      <3>2. UpdateProposal("main") \/ StoreRefuses("main")
        BY <1>1, <1>4, <3>1
        DEF HandlerStep, PlannerFails, PlannerRepairs, PlannerRaises, DecisionFails,
            PlannerDecides, PlannerProposesTool, Update, CancelRun, CompleteProposal,
            Notify, Planning
      <3>3. CASE StoreRefuses("main")
        BY <1>1, <1>2, <3>3, RefusalIsAnswer
        DEF StoreRefuses, Conflict, Await, Answered, Answer, DecisionIsSent
      <3>4. CASE UpdateProposal("main")
        <4>1. req'["main"].pc = "done"
          BY <1>2, <3>1, <3>4 DEF UpdateProposal, Continue, Await, Answered, Answer
        <4>2. client.call \in CallIds /\ \A c \in CallIds : c = h.call => Executable(c)'
          BY <1>2, <3>1, <3>4, ProposalLetsRun, StoredProposal
        <4> QED
          BY <1>1, <3>1, <4>1, <4>2 DEF DecisionIsSent, Executable, Authorised
      <3> QED
        BY <3>2, <3>3, <3>4
    <2> QED
      BY <2>3, <2>4, <2>5 DEF ExchangeInv
  <1> QED
    BY <1>3, <1>4

\* The client takes an answer: it goes on to execute only what the answer, or
\* the decision it answers, has authorised.
LEMMA GetKeepsInvariant ==
    ASSUME LocalInv, GetStepAny
    PROVE  ClientInv'
  <1>1. /\ UNCHANGED <<posted, executed, child>> /\ reply' = NoReply
        /\ [Next]_vars /\ req \in [Requests -> Request]
        /\ "main" \in Requests /\ "cancel" \in Requests
        /\ LocalTypeOK /\ ExchangeInv
    BY AnswersAreTaken, Slots DEF LocalInv, ClientInv, IndInv, TypeOK, Next
  <1>2. /\ NoReply \in [status : AgentStatus, call : CallIds \cup {None}]
        /\ Idle.pc = "idle"
    BY DEF NoReply, AgentStatus, Idle
  <1>3. CASE GetCancelled
    <2>1. /\ client' = [client EXCEPT !.pc = "exit", !.outcome = "interrupted"]
          /\ UNCHANGED <<posted, executed, child>> /\ client.pc = "cancel"
      BY <1>3 DEF GetCancelled, Gets, Exit
    <2>2. /\ client'.pc = "exit" /\ LocalTypeOK'
      BY <1>1, <1>2, <2>1 DEF LocalTypeOK, ClientPC, Outcomes
    <2>3. ExchangeInv'
      BY <2>2 DEF ExchangeInv, MainIsAwaited, HasCall, RepliesAreFresh,
         ReplyIsAuthorised, DecisionIsSent
    <2>4. ToolInv'
      BY <1>1, <2>1, <2>2, ToolFrame
    <2> QED
      BY <2>2, <2>3, <2>4 DEF ClientInv
  <1>4. CASE \/ GetPlanned \/ GetProposal \/ GetStep \/ GetApproval \/ GetRejection
             \/ GetResult
    <2>1. /\ req["main"].pc = "done" /\ req'["main"].pc = "idle"
          /\ client.pc \in {"plan", "tools", "next", "approval", "reject", "submit"}
      BY <1>1, <1>2, <1>4 DEF GetPlanned, GetProposal, GetStep, GetApproval,
         GetRejection, GetResult, Gets, Respond, Await
    <2> DEFINE Type == [pc : ClientPC, mode : {"goal", "tool"},
                        turn : 0 .. DEFAULT_MAX_AGENT_STEPS - 1,
                        call : CallIds \cup {None}, ok : BOOLEAN, outcome : Outcomes]
               Fits == /\ client' \in Type
                       /\ client'.pc \in {"decide", "approval", "reject", "execute",
                                          "submit"} => client'.call \in CallIds
                       /\ client'.pc = "execute" => Executable(client'.call)
    <2>2. client \in Type
      BY <1>1 DEF LocalTypeOK
    <2>3. ASSUME NEW outcome \in Outcomes, Exit(outcome) PROVE Fits
      BY <2>2, <2>3 DEF Exit, ClientPC
    <2>4. ASSUME NEW pc \in {"tools", "clarify"}, Goto(pc) PROVE Fits
      BY <2>2, <2>4 DEF Goto, ClientPC
    <2>5. ASSUME NextTurn PROVE Fits
      <3>1. CASE client.turn + 1 < DEFAULT_MAX_AGENT_STEPS
        <4>1. client.turn + 1 \in 0 .. DEFAULT_MAX_AGENT_STEPS - 1
          BY <2>2, <3>1, Turns
        <4>2. client' = [client EXCEPT !.pc = "next", !.turn = client.turn + 1]
          BY <2>5, <3>1 DEF NextTurn
        <4> QED
          BY <2>2, <4>1, <4>2 DEF ClientPC
      <3>2. CASE ~(client.turn + 1 < DEFAULT_MAX_AGENT_STEPS)
        BY <2>3, <2>5, <3>2 DEF NextTurn, Outcomes
      <3> QED
        BY <3>1, <3>2
    <2>6. ASSUME TakeProposal, client.pc \in {"tools", "next"}, Proceeds("main")
          PROVE  Fits
      <3>1. CASE Exit("error")
        BY <2>3, <3>1 DEF Outcomes
      <3>2. CASE /\ reply.call # None /\ reply.status = "executing"
                 /\ client' = [client EXCEPT !.pc = "execute", !.call = reply.call]
        <4>1. Executable(reply.call)
          BY <1>1, <2>1, <2>6, <3>2 DEF ExchangeInv, ReplyIsAuthorised, Proceeds
        <4>2. client'.pc = "execute" /\ client'.call = reply.call /\ client' \in Type
          BY <1>1, <2>2, <3>2 DEF LocalTypeOK, ClientPC
        <4> QED
          BY <4>1, <4>2 DEF Executable
      <3>3. CASE /\ reply.call # None
                 /\ \E pc \in {"decide", "reject"} :
                       client' = [client EXCEPT !.pc = pc, !.call = reply.call,
                                                !.ok = FALSE]
        BY <1>1, <2>2, <3>3 DEF LocalTypeOK, ClientPC
      <3> QED
        BY <2>6, <3>1, <3>2, <3>3 DEF TakeProposal
    <2>7. Fits
      <3>1. CASE GetPlanned
        BY <2>3, <2>4, <3>1 DEF GetPlanned, Outcomes
      <3>2. CASE GetProposal
        BY <2>3, <2>6, <3>2 DEF GetProposal, Gets, Outcomes
      <3>3. CASE GetStep
        BY <2>3, <2>4, <2>6, <3>3 DEF GetStep, Gets, Outcomes
      <3>4. CASE GetApproval
        <4>1. CASE Exit("error") \/ Exit("rejected")
          BY <2>3, <4>1 DEF Outcomes
        <4>2. CASE Proceeds("main") /\ client.ok /\ Goto("execute")
          <5>1. Executable(client.call)
            BY <1>1, <2>1, <3>4, <4>2
            DEF GetApproval, Gets, ExchangeInv, DecisionIsSent, Proceeds
          <5>2. client'.pc = "execute" /\ client'.call = client.call /\ client' \in Type
            BY <2>2, <4>2 DEF Goto, ClientPC
          <5> QED
            BY <5>1, <5>2 DEF Executable
        <4> QED
          BY <3>4, <4>1, <4>2 DEF GetApproval
      <3>5. CASE GetRejection
        BY <2>3, <3>5 DEF GetRejection, Outcomes
      <3>6. CASE GetResult
        BY <2>3, <2>5, <3>6 DEF GetResult, Outcomes
      <3> QED
        BY <1>4, <3>1, <3>2, <3>3, <3>4, <3>5, <3>6
    <2>8. LocalTypeOK'
      BY <1>1, <1>2, <2>7 DEF LocalTypeOK
    <2>9. ExchangeInv'
      BY <1>1, <2>1, <2>7 DEF ExchangeInv, MainIsAwaited, HasCall, RepliesAreFresh,
         ReplyIsAuthorised, DecisionIsSent
    <2>10. ToolInv'
      BY <1>1, <2>1, <2>7, ToolFrame
    <2> QED
      BY <2>8, <2>9, <2>10 DEF ClientInv
  <1> QED
    BY <1>3, <1>4 DEF GetStepAny

\* The local steps that do not concern a tool: prompts, Ctrl+C and timeouts of
\* requests.
LEMMA PromptKeepsInvariant ==
    ASSUME LocalInv, SendCreate \/ GetRun \/ Clarify \/ Decide \/ Interrupt \/ Timeout
    PROVE  ClientInv'
  <1> DEFINE Type == [pc : ClientPC, mode : {"goal", "tool"},
                      turn : 0 .. DEFAULT_MAX_AGENT_STEPS - 1,
                      call : CallIds \cup {None}, ok : BOOLEAN, outcome : Outcomes]
  <1>1. /\ UNCHANGED <<vars, reply, executed, child>> /\ posted' \in BOOLEAN
        /\ client.pc # "execute"
    BY DEF SendCreate, GetRun, Clarify, Decide, Interrupt, Interruptible, Timeout,
       LocalInv, ClientInv, LocalTypeOK
  <1>2. /\ LocalTypeOK /\ ExchangeInv /\ client \in Type
    BY DEF LocalInv, ClientInv, LocalTypeOK
  <1>3. /\ client' \in Type /\ client'.call = client.call
        /\ \/ client'.pc \in {"cancel", "exit"}
           \/ /\ client.pc \in {"start", "create", "clarify", "decide"}
              /\ client'.pc \in {"create", "plan", "next", "approval"}
              /\ client'.pc = "approval" => client.call \in CallIds
    <2>1. CASE SendCreate \/ GetRun
      BY <1>2, <2>1 DEF SendCreate, GetRun, Goto, ClientPC
    <2>2. CASE Clarify
      <3>1. CASE NextTurn
        <4>1. CASE client.turn + 1 < DEFAULT_MAX_AGENT_STEPS
          <5>1. client.turn + 1 \in 0 .. DEFAULT_MAX_AGENT_STEPS - 1
            BY <1>2, <4>1, Turns
          <5>2. client' = [client EXCEPT !.pc = "next", !.turn = client.turn + 1]
            BY <3>1, <4>1 DEF NextTurn
          <5> QED
            BY <1>2, <2>2, <5>1, <5>2 DEF ClientPC, Clarify
        <4>2. CASE ~(client.turn + 1 < DEFAULT_MAX_AGENT_STEPS)
          BY <1>2, <3>1, <4>2 DEF NextTurn, Exit, ClientPC, Outcomes
        <4> QED
          BY <4>1, <4>2
      <3>2. CASE Exit("error")
        BY <1>2, <3>2 DEF Exit, ClientPC, Outcomes
      <3> QED
        BY <2>2, <3>1, <3>2 DEF Clarify
    <2>3. CASE Decide
      BY <1>2, <2>3 DEF Decide, ClientPC, ExchangeInv, HasCall
    <2>4. CASE Interrupt \/ Timeout
      BY <1>2, <2>4 DEF Interrupt, Timeout, Goto, Exit, ClientPC, Outcomes
    <2> QED
      BY <2>1, <2>2, <2>3, <2>4
  <1>4. LocalTypeOK'
    BY <1>1, <1>2, <1>3 DEF LocalTypeOK
  <1>5. ExchangeInv'
    BY <1>1, <1>2, <1>3
    DEF vars, ExchangeInv, MainIsAwaited, HasCall, RepliesAreFresh, ReplyIsAuthorised,
        DecisionIsSent, NoReply
  <1>6. ToolInv'
    BY <1>1, <1>3, ToolFrame
  <1> QED
    BY <1>4, <1>5, <1>6 DEF ClientInv

\* The steps of the executor and of the child process it waits for.
ToolStep == \/ Execute \/ StartTool \/ CollectTool \/ ToolTimeout \/ ReapTimedOut
            \/ ReapCancelled \/ InterruptTool \/ \E state \in Ended : ToolEnds(state)

\* The client leaves its executor only to submit a result, to cancel the run or
\* to give up, and never with a child.
LEMMA ToolStepShape ==
    ASSUME LocalInv, ToolStep
    PROVE  /\ client.pc = "execute" /\ UNCHANGED <<vars, posted, reply>>
           /\ client' \in [pc : {"execute", "submit", "cancel", "exit"},
                           mode : {"goal", "tool"},
                           turn : 0 .. DEFAULT_MAX_AGENT_STEPS - 1,
                           call : CallIds \cup {None}, ok : BOOLEAN, outcome : Outcomes]
           /\ client'.call = client.call /\ child' \in Child
           /\ \/ executed' = executed
              \/ \E state \in {"started", "succeeded", "failed"} :
                    executed' = [executed EXCEPT ![client.call] = state]
           /\ child' # NoChild => /\ client'.pc = "execute"
                                  /\ proposals[client.call].proposal.risk = "read"
           /\ child'.handler # "none" => child'.state # "running"
           /\ \A c \in CallIds : executed'[c] = "started" =>
                 c = client.call /\ child'.state = "running" /\ client'.pc = "execute"
  <1> DEFINE Type(pcs) ==
                [pc : pcs, mode : {"goal", "tool"},
                 turn : 0 .. DEFAULT_MAX_AGENT_STEPS - 1,
                 call : CallIds \cup {None}, ok : BOOLEAN, outcome : Outcomes]
  <1>1. /\ client.pc = "execute" /\ UNCHANGED <<vars, posted, reply>>
    BY DEF ToolStep, Execute, StartTool, CollectTool, ToolTimeout, ReapTimedOut,
       ReapCancelled, InterruptTool, ToolEnds, Running
  <1>2. /\ client \in Type({"execute"}) /\ child \in Child
        /\ executed \in [CallIds -> {"no", "started", "succeeded", "failed"}]
        /\ client.call \in CallIds
        /\ child # NoChild => proposals[client.call].proposal.risk = "read"
        /\ child.handler # "none" => child.state # "running"
        /\ \A c \in CallIds : executed[c] = "started" =>
              c = client.call /\ child.state = "running"
        /\ NoChild \in Child /\ NoChild.state = "none" /\ NoChild.handler = "none"
    BY <1>1 DEF LocalInv, ClientInv, LocalTypeOK, ExchangeInv, HasCall, ToolInv,
       ChildIsWatched, NoChildOutlivesItsTool, NoChild, Child, ChildState
  <1>3. CASE Execute
    <2>1. child = NoChild
      BY <1>2, <1>3 DEF Execute, Running
    <2> QED
      BY <1>1, <1>2, <1>3, <2>1 DEF Execute, Marks, Returns
  <1>4. CASE StartTool
    BY <1>1, <1>2, <1>4
    DEF StartTool, Running, StartChild, Marks, Returns, NoChild, Child, ChildState
  <1>5. CASE CollectTool
    BY <1>1, <1>2, <1>5 DEF CollectTool, Communicated, Returns, Ended
  <1>6. ASSUME NEW handler \in {"timeout", "cancel"}, KillTool(handler), Running("read"),
               UNCHANGED client
        PROVE  /\ child' \in Child /\ child' # NoChild
               /\ child'.handler # "none" /\ child'.state # "running"
               /\ \A c \in CallIds : executed'[c] # "started"
               /\ \/ executed' = executed
                  \/ executed' = [executed EXCEPT ![client.call] = "failed"]
               /\ proposals[client.call].proposal.risk = "read"
    BY <1>1, <1>2, <1>6
    DEF KillTool, Kill, Marks, Awaited, Child, ChildState, NoChild, Running
  <1>7. CASE KillRaises /\ Exit("error") /\ UNCHANGED executed
    BY <1>1, <1>2, <1>7 DEF KillRaises, Exit, Ended, Outcomes
  <1>8. CASE ToolTimeout
    BY <1>1, <1>2, <1>6, <1>7, <1>8 DEF ToolTimeout
  <1>9. CASE ReapTimedOut
    BY <1>1, <1>2, <1>9 DEF ReapTimedOut, Reaped, Returns
  <1>10. CASE ReapCancelled
    BY <1>1, <1>2, <1>10 DEF ReapCancelled, Reaped, Goto
  <1>11. CASE InterruptTool
    <2>1. CASE Abandoned /\ Goto("cancel") /\ UNCHANGED executed
      BY <1>1, <1>2, <2>1 DEF Abandoned, Goto
    <2> QED
      BY <1>1, <1>2, <1>6, <1>7, <1>11, <2>1 DEF InterruptTool
  <1>12. ASSUME NEW state \in Ended, ToolEnds(state)
         PROVE  /\ client' = client /\ child' \in Child /\ child' # NoChild
                /\ child'.handler = "none" /\ proposals[client.call].proposal.risk = "read"
                /\ executed' = [executed EXCEPT ![client.call] = state]
                /\ state \in {"succeeded", "failed"}
    BY <1>2, <1>12
    DEF ToolEnds, Running, ChildEnds, Marks, Ended, Child, ChildState, NoChild
  <1> QED
    BY <1>1, <1>2, <1>3, <1>4, <1>5, <1>8, <1>9, <1>10, <1>11, <1>12 DEF ToolStep

\* A tool step keeps the invariant: see ToolStepShape.
LEMMA ToolKeepsInvariant == ASSUME LocalInv, ToolStep PROVE ClientInv'
  <1>1. /\ LocalTypeOK /\ ExchangeInv /\ ToolInv /\ req["main"].pc = "idle"
        /\ Executable(client.call) /\ client.call \in CallIds
    BY ToolStepShape DEF LocalInv, ClientInv, ExchangeInv, MainIsAwaited, ToolInv,
       RunsAreExecutable, Executable
  <1>2. LocalTypeOK'
    BY <1>1, ToolStepShape DEF LocalTypeOK, ClientPC
  <1>3. ExchangeInv'
    BY <1>1, ToolStepShape
    DEF vars, ExchangeInv, MainIsAwaited, HasCall, RepliesAreFresh, ReplyIsAuthorised,
        DecisionIsSent
  <1>4. ToolInv'
    <2>1. proposals' = proposals /\ client'.call = client.call
      BY ToolStepShape DEF vars
    <2>2. RunsAreExecutable'
      <3>1. \A c \in CallIds : executed'[c] # "no" => c = client.call \/ executed[c] # "no"
        BY <1>1, ToolStepShape DEF LocalTypeOK
      <3> QED
        BY <1>1, <2>1, <3>1 DEF ToolInv, RunsAreExecutable, Executable, Authorised
    <2>3. ChildIsWatched'
      BY <2>1, ToolStepShape DEF ChildIsWatched
    <2>4. NoChildOutlivesItsTool'
      BY <2>1, ToolStepShape DEF NoChildOutlivesItsTool
    <2> QED
      BY <2>2, <2>3, <2>4 DEF ToolInv
  <1> QED
    BY <1>2, <1>3, <1>4 DEF ClientInv

\* The body of an answer is a status and a call of the backend's types.
LEMMA BackendKeepsTypes ==
    ASSUME LocalInv, NEW q \in Requests, Backend(q)
    PROVE  LocalTypeOK'
  <1>1. /\ req[q].next \in AgentRun /\ req[q] \in Request
        /\ UNCHANGED <<client, posted, executed, child>>
    BY HandlerReply DEF Backend, LocalInv, IndInv, TypeOK
  <1>2. req[q].next.status \in AgentStatus /\ req[q].call \in CallIds \cup {None}
    BY <1>1 DEF AgentRun, Request
  <1> QED
    BY <1>1, <1>2 DEF Backend, LocalInv, ClientInv, LocalTypeOK

\* A step that leaves the client alone, or only takes its create request.
LEMMA BystanderKeepsInvariant ==
    ASSUME LocalInv,
           \/ CreateRun
           \/ \E q \in Requests : BackendFails(q) \/ Discard(q)
    PROVE  ClientInv'
  <1>1. /\ UNCHANGED <<client, reply, executed, child>> /\ posted' \in BOOLEAN
        /\ [Next]_vars /\ req \in [Requests -> Request] /\ "main" \in Requests
        /\ LocalTypeOK /\ ExchangeInv
    BY Slots DEF CreateRun, BackendFails, Discard, clientVars, Next, LocalInv, ClientInv,
       LocalTypeOK, IndInv, TypeOK
  <1>2. LocalTypeOK'
    BY <1>1 DEF LocalTypeOK
  <1>3. ToolInv'
    <2>1. client.pc = "execute" => Executable(client.call)
      BY DEF LocalInv, ClientInv, ToolInv, RunsAreExecutable
    <2> QED
      BY <1>1, <2>1, ToolFrame
  <1>4. CASE req'["main"] = req["main"]
    BY <1>1, <1>2, <1>3, <1>4, ExchangeFrame DEF ClientInv
  <1>5. CASE BackendFails("main")
    <2>1. /\ req["main"].pc \in Pending
          /\ req'["main"].pc = "done" /\ req'["main"].response = "error"
      BY <1>1, <1>5 DEF BackendFails, Abort, Await, Answered, Answer
    <2>2. ExchangeInv'
      BY <1>1, <2>1 DEF ExchangeInv, MainIsAwaited, HasCall, RepliesAreFresh,
         ReplyIsAuthorised, DecisionIsSent, Pending, Writing, Planning
    <2> QED
      BY <1>2, <1>3, <2>2 DEF ClientInv
  <1>6. CASE Discard("main")
    <2>1. client.pc \in {"cancel", "exit"}
      BY <1>6 DEF Discard, AwaitedSlots
    <2>2. ExchangeInv'
      BY <1>1, <2>1 DEF ExchangeInv, MainIsAwaited, HasCall, RepliesAreFresh,
         ReplyIsAuthorised, DecisionIsSent
    <2> QED
      BY <1>2, <1>3, <2>2 DEF ClientInv
  <1>7. CASE CreateRun
    BY <1>1, <1>4, <1>7 DEF CreateRun, CreateAgentRun
  <1>8. ASSUME NEW q \in Requests \ {"main"}, BackendFails(q) \/ Discard(q)
        PROVE  ClientInv'
    BY <1>1, <1>4, <1>8 DEF BackendFails, Discard, Abort, Respond, Await
  <1> QED
    BY <1>5, <1>6, <1>7, <1>8

\* LocalInv is inductive.
LEMMA NextLocalInv == LocalInv /\ [LocalNext]_allVars => LocalInv'
  <1> SUFFICES ASSUME LocalInv, [LocalNext]_allVars PROVE LocalInv'
    OBVIOUS
  <1>1. HasCall /\ IndInv
    BY DEF LocalInv, ClientInv, ExchangeInv
  <1>2. [Next]_vars
    BY <1>1, BackendSteps DEF allVars
  <1>3. IndInv'
    BY <1>1, <1>2, NextIndInv
  <1> SUFFICES ClientInv'
    BY <1>3 DEF LocalInv
  <1>4. CASE LocalStepOnly
    BY <1>4, PromptKeepsInvariant, ToolKeepsInvariant DEF LocalStepOnly, ToolStep
  <1>5. CASE SendStep
    <2>1. UNCHANGED clientVars
      BY <1>1, <1>5, SendsAreReceived
    <2>2. client.pc = "execute" => Executable(client.call)
      BY DEF LocalInv, ClientInv, ToolInv, RunsAreExecutable
    <2>3. LocalTypeOK'
      BY <2>1 DEF clientVars, LocalInv, ClientInv, LocalTypeOK
    <2>4. ToolInv'
      BY <1>2, <2>1, <2>2, ToolFrame DEF clientVars
    <2> QED
      BY <1>5, <2>3, <2>4, SendKeepsExchange DEF ClientInv
  <1>6. CASE GetStepAny
    BY <1>6, GetKeepsInvariant
  <1>7. ASSUME NEW q \in Requests, Backend(q) PROVE ClientInv'
    <2>1. client.pc = "execute" => Executable(client.call)
      BY DEF LocalInv, ClientInv, ToolInv, RunsAreExecutable
    <2>2. ToolInv'
      BY <1>2, <1>7, <2>1, ToolFrame DEF Backend
    <2> QED
      BY <1>7, <2>2, BackendKeepsExchange, BackendKeepsTypes DEF ClientInv
  <1>8. CASE CreateRun \/ \E q \in Requests : BackendFails(q) \/ Discard(q)
    BY <1>8, BystanderKeepsInvariant
  <1>9. CASE UNCHANGED allVars
    BY <1>9 DEF allVars, vars, clientVars, LocalInv, ClientInv, LocalTypeOK, ExchangeInv,
       MainIsAwaited, HasCall, RepliesAreFresh, ReplyIsAuthorised, DecisionIsSent,
       ToolInv, RunsAreExecutable, ChildIsWatched, NoChildOutlivesItsTool, Executable,
       Authorised
  <1> QED
    BY <1>4, <1>5, <1>6, <1>7, <1>8, <1>9, StepKinds

--------------------------------------------------------------------------------
(***************************************************************************)
(* What the client guarantees                                              *)
(***************************************************************************)

\* The invariant of the client and its backend holds of every behaviour.
THEOREM LocalInvariance == LocalSpec => []LocalInv
  BY InitLocalInv, NextLocalInv, PTL DEF LocalSpec

\* The client adds no behaviour to the backend: what is proved of Spec holds
\* with the client, its lost answers and the web pages at work.
THEOREM ClientUsesBackend == LocalSpec => Spec
  <1>1. LocalInit => Init
    BY DEF LocalInit
  <1>2. LocalInv /\ [LocalNext]_allVars => [Next]_vars
    BY BackendSteps DEF LocalInv, ClientInv, ExchangeInv, allVars
  <1> QED
    BY <1>1, <1>2, LocalInvariance, PTL DEF LocalSpec, Spec

\* The client's variables keep their types.
THEOREM LocalTypeCorrect == LocalSpec => []LocalTypeOK
  <1>1. LocalInv => LocalTypeOK
    BY DEF LocalInv, ClientInv
  <1> QED
    BY <1>1, LocalInvariance, PTL

\* No tool runs on the workspace before the backend has stored its
\* authorisation.
THEOREM ExecutionSafety == LocalSpec => []ExecutionIsAuthorised
  <1>1. LocalInv => ExecutionIsAuthorised
    BY DEF LocalInv, ClientInv, ToolInv, RunsAreExecutable, Executable,
       ExecutionIsAuthorised
  <1> QED
    BY <1>1, LocalInvariance, PTL

\* No child process outlives the tool it runs for.
THEOREM ChildSafety == LocalSpec => []NoChildOutlivesItsTool
  <1>1. LocalInv => NoChildOutlivesItsTool
    BY DEF LocalInv, ClientInv, ToolInv
  <1> QED
    BY <1>1, LocalInvariance, PTL

\* The client's runs live the lifecycle of RunLifecycle.
THEOREM LocalRefinement == LocalSpec => ImplementsLifecycle
  BY ClientUsesBackend, Refinement

--------------------------------------------------------------------------------
(***************************************************************************)
(* The audit and the user are told the truth                               *)
(***************************************************************************)

\* The outcome of the tool that ran for call c may be reported as ok.
ReportFits(c, ok) ==
    \/ ok /\ executed[c] = "succeeded"
    \/ /\ ~ok
       /\ \/ executed[c] = "failed"
          \/ executed[c] = "succeeded" /\ proposals[c].proposal.risk = "read"

\* Nobody but the client's own request stores a result, the one it was told.
ResultsAreSubmitted ==
    /\ client.pc = "submit" => ReportFits(client.call, client.ok)
    /\ \A q \in Requests : req[q].pc = "complete_proposal" =>
          /\ q = "main" /\ client.pc \in {"submit", "cancel", "exit"}
          /\ req[q].call = client.call /\ client.call \in CallIds
          /\ ReportFits(client.call, req[q].next.status = "observing")

\* The call that is about to run has no result yet.
NotYetReported ==
    /\ client.pc = "execute" => results[client.call] = "none"
    /\ /\ client.pc \in {"tools", "next"}
       /\ req["main"].pc = "done" /\ req["main"].response = "ok"
       /\ reply.call # None /\ reply.status = "executing"
       => results[reply.call] = "none"
    /\ /\ client.pc = "approval" /\ client.ok
       /\ req["main"].pc = "done" /\ req["main"].response = "ok"
       => results[client.call] = "none"

\* A child that has ended is what the client has on record for its tool.
ChildIsTracked ==
    /\ child.handler # "none" => child.state # "none"
    /\ child.state # "none" =>
          executed[client.call] = CASE child.state = "running" -> "started"
                                    [] child.state = "killed" -> "failed"
                                    [] OTHER -> child.state

ReportInv == ChildIsTracked /\ ResultsAreSubmitted /\ NotYetReported /\ ResultsWereExecuted

\* The client's run is stored with status s.
StoredAs(s) == runs[Run] # None /\ runs[Run].status = s

\* The status that the answer to the client's request reports as its success.
Promised(s) ==
    \/ client.pc = "next" /\ reply.status = "completed" /\ s = "completed"
    \/ client.pc = "approval" /\ ~client.ok /\ s = "cancelled"
    \/ client.pc = "submit" /\ ~client.ok /\ s = "failed"

\* A request of the client is about its run; a rejection or a failed result is
\* on its way to be stored; a successful answer tells what has been stored.
AnswersAreTrue ==
    /\ req["main"].pc # "idle" => req["main"].run = Run
    /\ req["main"].pc \in Pending /\ client.pc = "approval" /\ ~client.ok
       => req["main"].next.status = "cancelled"
    /\ req["main"].pc \in Pending /\ client.pc = "submit" /\ ~client.ok
       => req["main"].next.status = "failed"
    /\ req["main"].pc = "done" /\ req["main"].response = "ok"
       => \A s \in Terminal : Promised(s) => StoredAs(s)

\* The user is told nothing before the end, and then what is stored.
ToldTruth ==
    /\ client.pc # "exit" => client.outcome = "none"
    /\ client.outcome = "completed" => StoredAs("completed")
    /\ client.outcome = "rejected" => StoredAs("cancelled")
    /\ client.outcome = "tool_result" /\ ~client.ok => StoredAs("failed")

TruthInv == AnswersAreTrue /\ ToldTruth

TrueInv == LocalInv /\ ReportInv /\ TruthInv

\* TrueInv holds initially.
LEMMA InitTrueInv == LocalInit => TrueInv
  <1> SUFFICES ASSUME LocalInit PROVE TrueInv
    OBVIOUS
  <1>1. LocalInv /\ client.pc = "start" /\ client.outcome = "none"
    <2>1. PICK mode \in {"goal", "tool"} :
             client = [pc |-> "start", mode |-> mode, turn |-> 0, call |-> None,
                       ok |-> FALSE, outcome |-> "none"]
      BY DEF LocalInit
    <2> QED
      BY <2>1, InitLocalInv
  <1>2. /\ \A q \in Requests : req[q].pc = "idle"
        /\ \A c \in CallIds : results[c] = "none"
        /\ child.state = "none" /\ child.handler = "none"
    BY DEF LocalInit, Init, Idle, NoChild
  <1>3. ReportInv
    BY <1>1, <1>2 DEF ReportInv, ChildIsTracked, ResultsAreSubmitted, NotYetReported,
       ResultsWereExecuted
  <1>4. TruthInv
    BY <1>1, <1>2, Slots DEF TruthInv, AnswersAreTrue, ToldTruth, Pending, Writing,
       Planning
  <1> QED
    BY <1>1, <1>3, <1>4 DEF TrueInv

\* A handler that stores a final status, or has stored it, says so.
LEMMA TerminalReply ==
    ASSUME IndInv, NEW q \in Requests, HandlerStep(q)
    PROVE  /\ req'[q].run = req[q].run
           /\ req'[q].pc \in Writing =>
                 req'[q].pc # "complete_proposal" /\ req[q].next.status \notin Terminal
           /\ req[q].next.status \in Terminal =>
                 /\ req'[q].pc \in Pending => req'[q].next = req[q].next
                 /\ req'[q].pc = "done" /\ req'[q].response = "ok" =>
                       /\ runs'[req[q].run] # None
                       /\ runs'[req[q].run].status = req[q].next.status
  <1> DEFINE h == req[q]
  <1>1. /\ h \in Request /\ HandlerIsCurrent(h) /\ HandlerNotifies(h)
        /\ req \in [Requests -> Request]
    BY DEF IndInv, TypeOK, PendingWritesAreCurrent, NotificationsFollowCommit
  <1>2. CASE \/ PlannerFails(q) \/ PlannerRepairs(q) \/ DecisionFails(q)
             \/ PlannerDecides(q, "clarifying") \/ PlannerDecides(q, "completed")
             \/ PlannerProposesTool(q)
    <2>1. h.next.status = "planning"
      BY <1>1, <1>2 DEF HandlerIsCurrent, PlannerFails, PlannerRepairs,
         DecisionFails, PlannerDecides, PlannerProposesTool, Planning
    <2>2. /\ req'[q].pc \in {"update", "repair", "update_proposal"}
          /\ req'[q].run = h.run
      BY <1>1, <1>2 DEF PlannerFails, PlannerRepairs, DecisionFails, PlannerDecides,
         PlannerProposesTool, FailPlanningRun, Await, Suspended, Request
    <2> QED
      BY <2>1, <2>2 DEF Terminal
  <1>3. CASE PlannerRaises(q)
    BY <1>1, <1>3
    DEF PlannerRaises, Await, Answered, Answer, Writing, Pending, Planning
  <1>4. CASE StoreRefuses(q)
    BY <1>1, <1>4, RefusalIsAnswer
    DEF StoreRefuses, Conflict, Await, Answered, Answer, Writing, Pending, Planning
  <1>5. CASE Notify(q)
    <2>1. req'[q].pc = "done" /\ req'[q].run = h.run /\ runs' = runs
      BY <1>1, <1>5 DEF Notify, Await, Answered, Answer, tables
    <2> QED
      BY <1>1, <1>5, <2>1
      DEF Notify, HandlerNotifies, Writing, Pending, Planning, Terminal
  <1>6. CASE Update(q) \/ CancelRun(q) \/ UpdateProposal(q) \/ CompleteProposal(q)
    <2>1. /\ h.pc \in Writing /\ VersionMatches(q) /\ StoreRun(q) /\ Continue(q)
      BY <1>6 DEF Update, CancelRun, UpdateProposal, CompleteProposal, Writing
    <2>2. runs'[h.run] = h.next /\ h.next \in AgentRun
      BY <2>1, CommitIsCurrent DEF StoreRun, IndInv, TypeOK
    <2>3. /\ req'[q].pc \in {"planner", "notify", "done"} /\ req'[q].run = h.run
          /\ req'[q].pc \in {"planner", "notify"} => req'[q].next = h.next
      BY <1>1, <2>1 DEF Continue, Await, Answered, Answer, Request
    <2> QED
      BY <2>2, <2>3, NoneAssumption DEF Writing, Pending, Planning
  <1> QED
    BY <1>2, <1>3, <1>4, <1>5, <1>6 DEF HandlerStep

\* A final status stays stored.
LEMMA StoredStays ==
    ASSUME IndInv, [Next]_vars
    PROVE  \A s \in Terminal : StoredAs(s) => StoredAs(s)'
  <1>1. CASE Next
    BY <1>1, EndedStays, Slots DEF StoredAs
  <1>2. CASE UNCHANGED vars
    BY <1>2 DEF vars, StoredAs
  <1> QED
    BY <1>1, <1>2

\* What a tool did is not forgotten, nor is the risk of its call.
LEMMA FitsStays ==
    ASSUME TrueInv, [Next]_vars, executed' = executed
    PROVE  \A c \in CallIds, ok \in BOOLEAN : ReportFits(c, ok) => ReportFits(c, ok)'
  <1>1. \A c \in CallIds : executed[c] # "no" =>
           proposals'[c].proposal = proposals[c].proposal
    BY ExecutableStays
    DEF TrueInv, LocalInv, ClientInv, ToolInv, RunsAreExecutable
  <1> QED
    BY <1>1 DEF ReportFits

\* ResultsWereExecuted, for call c.
WasExecuted(c) ==
    results[c] # "none" =>
        \/ executed[c] = results[c]
        \/ /\ executed[c] = "succeeded" /\ results[c] = "failed"
           /\ proposals[c].proposal.risk = "read"

\* The results on record stay those of the tools that ran.
LEMMA ExecutedStays ==
    ASSUME TrueInv, [Next]_vars, executed' = executed, NEW c \in CallIds,
           results'[c] = results[c]
    PROVE  WasExecuted(c)'
  <1>1. executed[c] # "no" => proposals'[c].proposal = proposals[c].proposal
    BY ExecutableStays
    DEF TrueInv, LocalInv, ClientInv, ToolInv, RunsAreExecutable
  <1>2. WasExecuted(c) /\ (results[c] # "none" => results[c] \in {"succeeded", "failed"})
    BY DEF TrueInv, ReportInv, ResultsWereExecuted, WasExecuted, LocalInv, IndInv, TypeOK
  <1> QED
    BY <1>1, <1>2 DEF WasExecuted

\* What taking an answer does to the client.
LEMMA GetShape ==
    ASSUME LocalInv, GetStepAny
    PROVE  /\ UNCHANGED <<tables, executed, child>>
           /\ client.pc # "exit" /\ client.pc # "execute" /\ client'.pc # "submit"
           /\ client'.pc # "exit" => client'.outcome = client.outcome
           /\ \A q \in Requests : req'[q] = req[q] \/ req'[q].pc = "idle"
           /\ \/ /\ client'.pc = "exit" /\ client'.call = client.call
                 /\ client.pc = "cancel" /\ client'.outcome = "interrupted"
              \/ /\ req["main"].pc = "done" /\ req'["main"].pc = "idle"
                 /\ client.pc # "cancel"
           /\ client'.pc = "execute" =>
                 /\ req["main"].response = "ok"
                 /\ \/ /\ client.pc \in {"tools", "next"}
                       /\ reply.call # None /\ reply.status = "executing"
                       /\ client'.call = reply.call
                    \/ /\ client.pc = "approval" /\ client.ok
                       /\ client'.call = client.call
           /\ client'.pc = "exit" =>
                 /\ client'.outcome = "completed" =>
                       req["main"].response = "ok" /\ Promised("completed")
                 /\ client'.outcome = "rejected" =>
                       req["main"].response = "ok" /\ Promised("cancelled")
                 /\ client'.outcome = "tool_result" /\ ~client'.ok =>
                       req["main"].response = "ok" /\ Promised("failed")
  <1>1. /\ req \in [Requests -> Request] /\ "main" \in Requests /\ "cancel" \in Requests
        /\ client \in [pc : ClientPC, mode : {"goal", "tool"},
                       turn : 0 .. DEFAULT_MAX_AGENT_STEPS - 1,
                       call : CallIds \cup {None}, ok : BOOLEAN, outcome : Outcomes]
    BY Slots DEF LocalInv, IndInv, TypeOK, ClientInv, LocalTypeOK
  <1>2. /\ UNCHANGED <<tables, executed, child>>
        /\ client.pc # "exit" /\ client.pc # "execute"
        /\ \A q \in Requests : req'[q] = req[q] \/ req'[q].pc = "idle"
        /\ \/ client.pc = "cancel" /\ GetCancelled
           \/ req["main"].pc = "done" /\ req'["main"].pc = "idle" /\ client.pc # "cancel"
    BY <1>1 DEF GetStepAny, GetPlanned, GetProposal, GetStep, GetApproval,
       GetRejection, GetResult, GetCancelled, Gets, Respond, Await, Idle, tables
  <1>3. CASE GetCancelled
    BY <1>1, <1>2, <1>3 DEF GetCancelled, Gets, Exit
  <1>4. ASSUME NEW outcome \in {"error", "step_limit"}, Exit(outcome)
        PROVE  /\ client'.pc = "exit" /\ client'.outcome = outcome
               /\ client'.call = client.call
    BY <1>1, <1>4 DEF Exit
  <1>5. ASSUME NEW pc \in ClientPC \ {"exit", "submit", "execute"}, Goto(pc)
        PROVE  client'.pc = pc /\ client'.outcome = client.outcome
    BY <1>1, <1>5 DEF Goto
  <1>6. ASSUME NextTurn
        PROVE  \/ client'.pc = "next" /\ client'.outcome = client.outcome
               \/ client'.pc = "exit" /\ client'.outcome = "step_limit"
    BY <1>1, <1>6 DEF NextTurn, Exit
  <1>7. ASSUME TakeProposal
        PROVE  \/ client'.pc = "exit" /\ client'.outcome = "error"
               \/ /\ client'.pc = "execute" /\ client'.outcome = client.outcome
                  /\ reply.call # None /\ reply.status = "executing"
                  /\ client'.call = reply.call
               \/ /\ client'.pc \in {"decide", "reject"}
                  /\ client'.outcome = client.outcome
    BY <1>1, <1>7 DEF TakeProposal, Exit
  <1>8. CASE GetPlanned
    <2>1. Goto("tools") \/ Exit("error")
      BY <1>8 DEF GetPlanned
    <2> QED
      BY <1>2, <1>4, <1>5, <1>8, <2>1 DEF ClientPC, GetPlanned, Gets
  <1>9. CASE GetProposal
    BY <1>2, <1>4, <1>7, <1>9 DEF GetProposal, Gets, Proceeds
  <1>10. CASE GetStep
    <2>1. CASE ~Proceeds("main")
      BY <1>2, <1>4, <1>10, <2>1 DEF GetStep, Gets
    <2>2. CASE Proceeds("main") /\ Goto("clarify")
      BY <1>2, <1>5, <1>10, <2>2 DEF GetStep, Gets, ClientPC
    <2>3. CASE Proceeds("main") /\ reply.status = "completed" /\ Exit("completed")
      BY <1>1, <1>2, <1>10, <2>3 DEF GetStep, Gets, Proceeds, Exit, Promised
    <2>4. CASE Proceeds("main") /\ TakeProposal
      BY <1>2, <1>7, <1>10, <2>4 DEF GetStep, Gets, Proceeds
    <2> QED
      BY <1>10, <2>1, <2>2, <2>3, <2>4 DEF GetStep
  <1>11. CASE GetApproval
    BY <1>1, <1>2, <1>11 DEF GetApproval, Gets, Proceeds, Exit, Goto, Promised
  <1>12. CASE GetRejection
    BY <1>2, <1>4, <1>12 DEF GetRejection, Gets
  <1>13. CASE GetResult
    <2>1. CASE Exit("error")
      BY <1>2, <1>4, <1>13, <2>1 DEF GetResult, Gets
    <2>2. CASE NextTurn
      BY <1>2, <1>6, <1>13, <2>2 DEF GetResult, Gets
    <2>3. CASE Proceeds("main") /\ Exit("tool_result")
      BY <1>1, <1>2, <1>13, <2>3 DEF GetResult, Gets, Proceeds, Exit, Promised
    <2> QED
      BY <1>13, <2>1, <2>2, <2>3 DEF GetResult
  <1> QED
    BY <1>3, <1>8, <1>9, <1>10, <1>11, <1>12, <1>13 DEF GetStepAny

\* What a prompt, Ctrl+C or a timeout does to the client.
LEMMA PromptShape ==
    ASSUME LocalInv, SendCreate \/ GetRun \/ Clarify \/ Decide \/ Interrupt \/ Timeout
    PROVE  /\ UNCHANGED <<vars, reply, executed, child>>
           /\ client.pc # "exit" /\ client.pc # "execute"
           /\ client'.pc # "execute" /\ client'.pc # "submit"
           /\ client'.call = client.call
           /\ client'.pc \in {"cancel", "exit"} \/ req["main"].pc = "idle"
           /\ client'.pc # "exit" => client'.outcome = client.outcome
           /\ client'.pc = "exit" =>
                 client'.outcome \in {"error", "interrupted", "step_limit"}
  <1>1. client \in [pc : ClientPC, mode : {"goal", "tool"},
                    turn : 0 .. DEFAULT_MAX_AGENT_STEPS - 1,
                    call : CallIds \cup {None}, ok : BOOLEAN, outcome : Outcomes]
    BY DEF LocalInv, ClientInv, LocalTypeOK
  <1>2. client.pc \in {"start", "create", "clarify", "decide"} => req["main"].pc = "idle"
    BY DEF LocalInv, ClientInv, ExchangeInv, MainIsAwaited
  <1>3. CASE SendCreate \/ GetRun
    BY <1>1, <1>2, <1>3 DEF SendCreate, GetRun, Goto
  <1>4. CASE Clarify
    BY <1>1, <1>2, <1>4 DEF Clarify, NextTurn, Exit
  <1>5. CASE Decide
    BY <1>1, <1>2, <1>5 DEF Decide
  <1>6. CASE Interrupt
    BY <1>1, <1>6 DEF Interrupt, Interruptible, Goto, Exit
  <1>7. CASE Timeout
    BY <1>1, <1>7 DEF Timeout, Exit
  <1> QED
    BY <1>3, <1>4, <1>5, <1>6, <1>7

\* The executor returns what it did, and the child what became of it.
LEMMA ToolReports ==
    ASSUME TrueInv, ToolStep
    PROVE  /\ ChildIsTracked'
           /\ client'.pc = "submit" => ReportFits(client.call, client.ok)'
           /\ client'.pc # "exit" => client'.outcome = client.outcome
           /\ client'.pc = "exit" => client'.outcome = "error"
  <1>1. /\ client \in [pc : ClientPC, mode : {"goal", "tool"},
                       turn : 0 .. DEFAULT_MAX_AGENT_STEPS - 1,
                       call : CallIds \cup {None}, ok : BOOLEAN, outcome : Outcomes]
        /\ executed \in [CallIds -> {"no", "started", "succeeded", "failed"}]
        /\ child \in Child /\ client.call \in CallIds
        /\ child # NoChild => proposals[client.call].proposal.risk = "read"
        /\ client.pc = "execute" /\ proposals' = proposals
        /\ child.state = "none" => child.handler = "none" /\ child = NoChild
        /\ NoChild.state = "none" /\ NoChild.handler = "none"
    BY ToolStepShape
    DEF TrueInv, LocalInv, ClientInv, LocalTypeOK, ExchangeInv, HasCall, ToolInv,
        ChildIsWatched, ReportInv, ChildIsTracked, Child, NoChild, vars
  <1>2. ChildIsTracked
    BY DEF TrueInv, ReportInv
  <1>3. CASE Execute
    <2>1. child = NoChild /\ child' = NoChild
      BY <1>1, <1>3 DEF Execute, Running
    <2> QED
      BY <1>1, <1>3, <2>1 DEF Execute, Marks, Returns, ReportFits, ChildIsTracked
  <1>4. CASE StartTool
    BY <1>1, <1>4 DEF StartTool, Running, StartChild, Marks, Returns, NoChild,
       ReportFits, ChildIsTracked
  <1>5. CASE CollectTool
    BY <1>1, <1>2, <1>5 DEF CollectTool, Running, Communicated, Awaited, Returns, Ended,
       ReportFits, ChildIsTracked
  <1>6. ASSUME NEW handler \in {"timeout", "cancel"}, KillTool(handler), UNCHANGED client
        PROVE  ChildIsTracked'
    BY <1>1, <1>2, <1>6
    DEF KillTool, Kill, Awaited, Marks, Child, ChildState, ChildIsTracked
  <1>7. CASE KillRaises /\ Exit("error") /\ UNCHANGED executed
    BY <1>1, <1>7 DEF KillRaises, Exit, ChildIsTracked
  <1>8. CASE ToolTimeout
    BY <1>1, <1>6, <1>7, <1>8 DEF ToolTimeout
  <1>9. CASE ReapTimedOut
    <2>1. /\ child.state \in {"running", "succeeded", "failed", "killed"}
          /\ child.state # "running"
      BY <1>1, <1>2, <1>9
      DEF ReapTimedOut, Reaped, ChildIsTracked, Child, ChildState, TrueInv, LocalInv,
          ClientInv, ToolInv, ChildIsWatched
    <2>2. executed[client.call] \in {"succeeded", "failed"}
      BY <1>2, <2>1 DEF ChildIsTracked
    <2> QED
      BY <1>1, <1>9, <2>1, <2>2
      DEF ReapTimedOut, Running, Reaped, Returns, ReportFits, ChildIsTracked
  <1>10. CASE ReapCancelled
    BY <1>1, <1>10 DEF ReapCancelled, Reaped, Goto, ChildIsTracked
  <1>11. CASE InterruptTool
    <2>1. CASE Abandoned /\ Goto("cancel") /\ UNCHANGED executed
      BY <1>1, <2>1 DEF Abandoned, Goto, ChildIsTracked
    <2> QED
      BY <1>1, <1>6, <1>7, <1>11, <2>1 DEF InterruptTool
  <1>12. ASSUME NEW state \in Ended, ToolEnds(state)
         PROVE  ChildIsTracked' /\ client' = client
    BY <1>1, <1>2, <1>12
    DEF ToolEnds, ChildEnds, Marks, Ended, Child, ChildIsTracked
  <1> QED
    BY <1>1, <1>3, <1>4, <1>5, <1>8, <1>9, <1>10, <1>11, <1>12 DEF ToolStep

\* What a sent request is about.
LEMMA SendShape ==
    ASSUME LocalInv, SendStep
    PROVE  /\ UNCHANGED <<tables, clientVars>>
           /\ \A q \in Requests : req'[q] # req[q] /\ req'[q].pc = "complete_proposal" =>
                 /\ q = "main" /\ client.pc = "submit" /\ client.call \in CallIds
                 /\ req'[q].call = client.call
                 /\ (req'[q].next.status = "observing") = client.ok
           /\ req'["main"] = req["main"] \/
                 /\ req["main"].pc = "idle" /\ client.pc # "exit"
                 /\ reply = NoReply /\ req'["main"].run = Run
                 /\ req'["main"].pc = "done" /\ req'["main"].response = "ok"
                       => client.pc = "tools"
                 /\ req'["main"].pc \in Pending /\ client.pc = "approval" /\ ~client.ok
                       => req'["main"].next.status = "cancelled"
                 /\ req'["main"].pc \in Pending /\ client.pc = "submit" /\ ~client.ok
                       => req'["main"].next.status = "failed"
  <1>1. UNCHANGED <<tables, clientVars>>
    <2>1. UNCHANGED clientVars /\ \E q \in Requests : Receive(q)
      BY SendsAreReceived DEF LocalInv, ClientInv, ExchangeInv
    <2>2. ASSUME NEW q \in Requests, Receive(q) PROVE UNCHANGED tables
      BY <2>2 DEF Receive, CancelAgentRun, BeginAgentPlanning, PlanNextAgentStep,
         ProposeAgentTool, ResolveAgentToolApproval, SubmitAgentToolResult,
         GetActiveAgentTool, tables
    <2> QED
      BY <2>1, <2>2
  <1>2. /\ req \in [Requests -> Request] /\ "main" \in Requests
        /\ "cancel" \in Requests /\ "web" \in Requests
        /\ client.pc = "submit" => client.call \in CallIds
        /\ client.ok \in BOOLEAN
        /\ req["main"].pc = "idle" /\ client.pc \notin {"cancel", "exit"}
              => reply = NoReply
    BY Slots DEF LocalInv, IndInv, TypeOK, ClientInv, ExchangeInv, HasCall, LocalTypeOK,
       RepliesAreFresh
  <1>3. CASE SendCancel \/ UseWebPages
    <2>1. PICK q \in {"cancel", "web"} :
             \/ CancelAgentRun(q, Run)
             \/ \E c \in Open(Run), d \in {"approved", "rejected"} :
                   ResolveAgentToolApproval(q, Run, c, d)
      BY <1>3 DEF SendCancel, UseWebPages
    <2> QED
      BY <1>1, <1>2, <2>1
      DEF CancelAgentRun, ResolveAgentToolApproval, Await, Suspended, Answer
  <1>4. CASE SendPlan \/ SendTools \/ SendNext
    BY <1>1, <1>2, <1>4
    DEF SendPlan, SendTools, SendNext, Sends, BeginAgentPlanning, ProposeAgentTool,
        PlanNextAgentStep, Receives, Await, Suspended, Answer
  <1>5. CASE SendApproval
    <2>1. /\ client.pc \in {"approval", "reject"} /\ req["main"].pc = "idle"
          /\ reply = NoReply
      BY <1>2, <1>5 DEF SendApproval, ResolveAgentToolApproval, Receives
    <2>2. PICK d \in {"approved", "rejected"} :
             /\ ~client.ok => d = "rejected"
             /\ ResolveAgentToolApproval("main", Run, client.call, d)
      BY <1>5 DEF SendApproval
    <2>3. /\ \A q \in Requests \ {"main"} : req'[q] = req[q]
          /\ req'["main"].run = Run
          /\ \/ /\ req'["main"].pc = "done" /\ req'["main"].response # "ok"
             \/ /\ req'["main"].pc = "update_proposal"
                /\ req'["main"].next.status = ResolvedStatus(d)
      BY <1>2, <2>2
      DEF ResolveAgentToolApproval, Await, Suspended, Answer, TransitionTo
    <2> QED
      BY <1>1, <1>2, <2>1, <2>2, <2>3 DEF ResolvedStatus, Pending, Writing, Planning
  <1>6. CASE SendResult
    <2>1. /\ client.pc = "submit" /\ req["main"].pc = "idle" /\ reply = NoReply
          /\ SubmitAgentToolResult("main", Run, client.call, client.ok)
      BY <1>2, <1>6 DEF SendResult, Sends, SubmitAgentToolResult, Receives
    <2>2. /\ \A q \in Requests \ {"main"} : req'[q] = req[q]
          /\ req'["main"].run = Run
          /\ \/ /\ req'["main"].pc = "done" /\ req'["main"].response # "ok"
             \/ /\ req'["main"].pc = "complete_proposal"
                /\ req'["main"].call = client.call
                /\ req'["main"].next.status = ResultStatus(client.ok)
      BY <1>2, <2>1
      DEF SubmitAgentToolResult, Await, Suspended, Answer, TransitionTo
    <2>3. (ResultStatus(client.ok) = "observing") = client.ok
      BY <1>2 DEF ResultStatus
    <2> QED
      BY <1>1, <1>2, <2>1, <2>2, <2>3 DEF ResultStatus, Pending, Writing, Planning
  <1> QED
    BY <1>3, <1>4, <1>5, <1>6 DEF SendStep

\* The report invariant is kept.
LEMMA NextReportInv ==
    ASSUME TrueInv, LocalInv', LocalNext
    PROVE  ReportInv'
  <1>1. /\ IndInv /\ [Next]_vars /\ req \in [Requests -> Request]
        /\ "main" \in Requests /\ LocalInv /\ HasCall /\ client.ok \in BOOLEAN
        /\ ChildIsTracked /\ ResultsAreSubmitted /\ NotYetReported
    BY BackendSteps, Slots
    DEF TrueInv, LocalInv, ClientInv, ExchangeInv, LocalTypeOK, ReportInv, IndInv, TypeOK
  <1>2. executed' = executed => \A c \in CallIds, ok \in BOOLEAN :
                                   ReportFits(c, ok) => ReportFits(c, ok)'
    BY <1>1, FitsStays
  <1>3. UNCHANGED <<executed, results>> => ResultsWereExecuted'
    BY <1>1, ExecutedStays DEF ResultsWereExecuted, WasExecuted
  <1>4. /\ child.state # "none" => client.pc = "execute"
        /\ client.pc = "submit" => client.call \in CallIds
    BY <1>1 DEF LocalInv, ClientInv, ToolInv, ChildIsWatched, NoChild, ExchangeInv,
       HasCall
  <1>5. CASE SendStep
    <2>1. ResultsAreSubmitted'
      <3>1. ASSUME client.pc = "submit" PROVE ReportFits(client.call, client.ok)'
        BY <1>1, <1>2, <1>4, <1>5, <3>1, SendShape DEF ResultsAreSubmitted, ReportFits,
           clientVars, tables
      <3>2. ASSUME NEW q \in Requests, req'[q].pc = "complete_proposal"
            PROVE  /\ q = "main" /\ client.pc \in {"submit", "cancel", "exit"}
                   /\ req'[q].call = client.call /\ client.call \in CallIds
                   /\ ReportFits(client.call, req[q].next.status = "observing")'
        BY <1>1, <1>5, <3>2, SendShape DEF ResultsAreSubmitted, ReportFits,
           clientVars, tables
      <3> QED
        BY <1>1, <1>5, <3>1, <3>2, SendShape DEF ResultsAreSubmitted, clientVars
    <2>2. NotYetReported'
      BY <1>1, <1>5, SendShape DEF NotYetReported, clientVars, tables, NoReply
    <2> QED
      BY <1>1, <1>3, <1>5, <2>1, <2>2, SendShape
      DEF ReportInv, ChildIsTracked, clientVars, tables
  <1>6. CASE GetStepAny
    <2>1. ChildIsTracked'
      BY <1>1, <1>4, <1>6, GetShape DEF ChildIsTracked
    <2>2. ResultsAreSubmitted'
      BY <1>1, <1>6, GetShape DEF ResultsAreSubmitted, ReportFits, tables
    <2>3. NotYetReported'
      BY <1>1, <1>6, GetShape DEF NotYetReported, tables
    <2> QED
      BY <1>1, <1>3, <1>6, <2>1, <2>2, <2>3, GetShape DEF ReportInv, tables
  <1>7. CASE SendCreate \/ GetRun \/ Clarify \/ Decide \/ Interrupt \/ Timeout
    <2>1. ChildIsTracked'
      BY <1>1, <1>4, <1>7, PromptShape DEF ChildIsTracked
    <2>2. ResultsAreSubmitted'
      BY <1>1, <1>7, PromptShape DEF ResultsAreSubmitted, ReportFits, vars
    <2>3. NotYetReported'
      BY <1>1, <1>7, PromptShape DEF NotYetReported, vars
    <2> QED
      BY <1>1, <1>3, <1>7, <2>1, <2>2, <2>3, PromptShape DEF ReportInv, vars
  <1>8. CASE ToolStep
    <2>1. /\ client.pc = "execute" /\ req' = req /\ results' = results
          /\ proposals' = proposals /\ client'.call = client.call
          /\ client'.pc \in {"execute", "submit", "cancel", "exit"}
          /\ \A c \in CallIds : c # client.call => executed'[c] = executed[c]
      BY <1>8, ToolStepShape DEF vars, LocalInv, TrueInv, ClientInv, LocalTypeOK
    <2>2. ResultsAreSubmitted'
      BY <1>1, <1>8, <2>1, ToolReports DEF ResultsAreSubmitted, ReportFits
    <2>3. NotYetReported'
      BY <1>1, <2>1 DEF NotYetReported
    <2>4. ResultsWereExecuted'
      BY <1>1, <2>1 DEF NotYetReported, ResultsWereExecuted, TrueInv, ReportInv
    <2> QED
      BY <1>8, <2>2, <2>3, <2>4, ToolReports DEF ReportInv
  <1>9. ASSUME NEW q \in Requests, Backend(q) PROVE ReportInv'
    <2>1. /\ HandlerStep(q) /\ UNCHANGED <<client, posted, executed, child>>
          /\ \A q2 \in Requests \ {q} : req'[q2] = req[q2]
          /\ req'[q].pc # "complete_proposal"
          /\ req[q].pc \in Pending
      BY <1>1, <1>9, HandlerStepFrame, TerminalReply DEF Backend, Writing
    <2>2. ResultsAreSubmitted'
      <3>1. client.pc = "submit" => ReportFits(client.call, client.ok)'
        BY <1>1, <1>2, <1>4, <2>1 DEF ResultsAreSubmitted
      <3>2. ASSUME NEW q2 \in Requests, req'[q2].pc = "complete_proposal"
            PROVE  /\ q2 = "main" /\ client.pc \in {"submit", "cancel", "exit"}
                   /\ req'[q2].call = client.call /\ client.call \in CallIds
                   /\ ReportFits(client.call, req[q2].next.status = "observing")'
        <4>1. q2 # q /\ req'[q2] = req[q2]
          BY <2>1, <3>2
        <4>2. (req[q2].next.status = "observing") \in BOOLEAN
          OBVIOUS
        <4> QED
          BY <1>1, <1>2, <2>1, <3>2, <4>1, <4>2 DEF ResultsAreSubmitted, ReportFits
      <3> QED
        BY <2>1, <3>1, <3>2 DEF ResultsAreSubmitted
    <2>3. CASE results' = results
      <3>1. NotYetReported'
        <4>1. CASE q = "main"
          <5>1. client.pc # "execute"
            BY <1>1, <2>1, <4>1 DEF LocalInv, ClientInv, ExchangeInv, MainIsAwaited,
               Pending, Writing, Planning
          <5>2. /\ req'["main"].pc = "done" /\ req'["main"].response = "ok"
                /\ reply'.call # None /\ reply'.status = "executing"
                => results'[reply'.call] = "none"
            <6>1. /\ reply' = [status |-> req["main"].next.status,
                               call   |-> req["main"].call]
                  /\ req["main"].call \in CallIds \cup {None}
              BY <1>1, <1>9, <4>1 DEF Backend, IndInv, TypeOK, Request
            <6> QED
              BY <1>1, <2>1, <4>1, <6>1, HandlerReply
          <5>3. /\ client.pc = "approval" /\ client.ok
                /\ req'["main"].pc = "done" /\ req'["main"].response = "ok"
                => results'[client.call] = "none"
            <6> SUFFICES ASSUME client.pc = "approval", client.ok,
                                req'["main"].pc = "done", req'["main"].response = "ok"
                         PROVE  results'[client.call] = "none"
              OBVIOUS
            <6>1. /\ req["main"].pc = "update_proposal" /\ req["main"].op = "approval"
                  /\ req["main"].call = client.call
                  /\ req["main"].proposal.approval = "approved"
              BY <1>1, <2>1, <4>1 DEF LocalInv, ClientInv, ExchangeInv, DecisionIsSent,
                 Pending, Writing, Planning
            <6>2. ~StoreRefuses("main")
              BY <1>1, RefusalIsAnswer DEF StoreRefuses, Conflict, Await, Answered, Answer
            <6>3. UpdateProposal("main")
              BY <2>1, <4>1, <6>1, <6>2
              DEF HandlerStep, PlannerFails, PlannerRepairs, PlannerRaises,
                  DecisionFails, PlannerDecides, PlannerProposesTool, Update, CancelRun,
                  CompleteProposal, Notify, Planning
            <6> QED
              BY <1>1, <6>1, <6>3, ProposalLetsRun, StoredProposal
          <5> QED
            BY <2>1, <5>1, <5>2, <5>3 DEF NotYetReported
        <4>2. CASE q # "main"
          BY <1>1, <1>9, <2>1, <2>3, <4>2 DEF NotYetReported, Backend
        <4> QED
          BY <4>1, <4>2
      <3> QED
        BY <1>1, <1>3, <2>1, <2>2, <2>3, <3>1 DEF ReportInv, ChildIsTracked
    <2>4. CASE CompleteProposal(q)
      <3> DEFINE ok == req[q].next.status = "observing"
      <3>1. /\ q = "main" /\ client.pc \in {"submit", "cancel", "exit"}
            /\ req[q].call = client.call /\ client.call \in CallIds
            /\ ReportFits(client.call, ok) /\ ok \in BOOLEAN
        BY <1>1, <2>4 DEF ResultsAreSubmitted, CompleteProposal
      <3>2. results' = [results EXCEPT ![client.call] =
                           IF ok THEN "succeeded" ELSE "failed"]
        BY <2>4, <3>1 DEF CompleteProposal
      <3>3. NotYetReported'
        BY <2>1, <3>1 DEF NotYetReported
      <3>4. ASSUME NEW c \in CallIds PROVE WasExecuted(c)'
        <4>1. CASE c = client.call
          <5>1. /\ results'[c] = IF ok THEN "succeeded" ELSE "failed"
                /\ executed' = executed
            BY <1>1, <2>1, <3>2, <4>1 DEF IndInv, TypeOK
          <5>2. /\ executed[c] # "no"
                /\ proposals'[c].proposal = proposals[c].proposal
            <6>1. executed[c] # "no"
              BY <3>1, <4>1 DEF ReportFits
            <6> QED
              BY <1>1, <6>1, ExecutableStays
              DEF LocalInv, ClientInv, ToolInv, RunsAreExecutable
          <5> QED
            BY <3>1, <4>1, <5>1, <5>2 DEF ReportFits, WasExecuted
        <4>2. CASE c # client.call
          BY <1>1, <2>1, <3>2, <4>2, ExecutedStays DEF IndInv, TypeOK
        <4> QED
          BY <4>1, <4>2
      <3> QED
        BY <1>1, <2>1, <2>2, <3>3, <3>4
        DEF ReportInv, ChildIsTracked, ResultsWereExecuted, WasExecuted
    <2>5. results' = results \/ CompleteProposal(q)
      BY <2>1, <1>1 DEF HandlerStep, PlannerFails, PlannerRepairs, PlannerRaises,
         DecisionFails, PlannerDecides, PlannerProposesTool, FailPlanningRun, Update,
         CancelRun, UpdateProposal, StoreRefuses, Conflict, Notify, tables
    <2> QED
      BY <2>3, <2>4, <2>5
  <1>10. CASE CreateRun \/ \E q \in Requests : BackendFails(q) \/ Discard(q)
    <2>1. /\ UNCHANGED <<client, reply, executed, child, results>>
          /\ \A q \in Requests :
                \/ req'[q] = req[q] \/ req'[q].pc = "idle"
                \/ req'[q].pc = "done" /\ req'[q].response = "error"
      BY <1>1, <1>10 DEF CreateRun, CreateAgentRun, BackendFails, Abort, Discard,
         Respond, Await, Answered, Answer, Idle, clientVars, tables
    <2>2. ResultsAreSubmitted'
      <3>1. client.pc = "submit" => ReportFits(client.call, client.ok)'
        BY <1>1, <1>2, <1>4, <2>1 DEF ResultsAreSubmitted
      <3>2. ASSUME NEW q2 \in Requests, req'[q2].pc = "complete_proposal"
            PROVE  /\ q2 = "main" /\ client.pc \in {"submit", "cancel", "exit"}
                   /\ req'[q2].call = client.call /\ client.call \in CallIds
                   /\ ReportFits(client.call, req[q2].next.status = "observing")'
        <4>1. req'[q2] = req[q2] /\ (req[q2].next.status = "observing") \in BOOLEAN
          BY <2>1, <3>2
        <4> QED
          BY <1>1, <1>2, <2>1, <3>2, <4>1 DEF ResultsAreSubmitted, ReportFits
      <3> QED
        BY <2>1, <3>1, <3>2 DEF ResultsAreSubmitted
    <2>3. NotYetReported'
      BY <1>1, <2>1 DEF NotYetReported
    <2> QED
      BY <1>1, <1>3, <2>1, <2>2, <2>3 DEF ReportInv, ChildIsTracked
  <1> QED
    BY <1>5, <1>6, <1>7, <1>8, <1>9, <1>10, StepKinds DEF LocalStepOnly, ToolStep

\* What the client has been told stays true while the client does nothing.
LEMMA ToldStays ==
    ASSUME TrueInv, [Next]_vars, client' = client
    PROVE  ToldTruth'
  <1>1. IndInv /\ ToldTruth /\ {"completed", "cancelled", "failed"} = Terminal
    BY DEF TrueInv, LocalInv, TruthInv, Terminal
  <1>2. \A s \in Terminal : StoredAs(s) => StoredAs(s)'
    BY <1>1, StoredStays
  <1> QED
    BY <1>1, <1>2 DEF ToldTruth, StoredAs

\* The truth invariant is kept.
LEMMA NextTruthInv ==
    ASSUME TrueInv, LocalInv', LocalNext
    PROVE  TruthInv'
  <1>1. /\ IndInv /\ [Next]_vars /\ req \in [Requests -> Request]
        /\ "main" \in Requests /\ LocalInv /\ HasCall
        /\ AnswersAreTrue /\ ToldTruth /\ MainIsAwaited
    BY BackendSteps, Slots
    DEF TrueInv, LocalInv, ClientInv, ExchangeInv, TruthInv, IndInv, TypeOK
  <1>2. /\ "idle" \notin Pending /\ "done" \notin Pending
        /\ Terminal = {"completed", "cancelled", "failed"}
    BY DEF Pending, Writing, Planning, Terminal
  <1>3. \A s \in Terminal : StoredAs(s) => StoredAs(s)'
    BY <1>1, StoredStays
  <1>4. client' = client => ToldTruth'
    BY <1>1, ToldStays
  <1>5. CASE SendStep
    <2>1. client' = client /\ reply' = reply /\ runs' = runs
      BY <1>1, <1>5, SendShape DEF clientVars, tables
    <2>2. AnswersAreTrue'
      <3>1. CASE req'["main"] = req["main"]
        BY <1>1, <2>1, <3>1 DEF AnswersAreTrue, Promised, StoredAs
      <3>2. CASE req'["main"] # req["main"]
        <4>1. /\ req'["main"].run = Run
              /\ req'["main"].pc = "done" /\ req'["main"].response = "ok"
                     => client.pc = "tools"
              /\ req'["main"].pc \in Pending /\ client.pc = "approval" /\ ~client.ok
                     => req'["main"].next.status = "cancelled"
              /\ req'["main"].pc \in Pending /\ client.pc = "submit" /\ ~client.ok
                     => req'["main"].next.status = "failed"
          BY <1>1, <1>5, <3>2, SendShape
        <4> QED
          BY <2>1, <4>1 DEF AnswersAreTrue, Promised
      <3> QED
        BY <3>1, <3>2
    <2> QED
      BY <1>4, <2>1, <2>2 DEF TruthInv
  <1>6. CASE GetStepAny
    <2>1. runs' = runs
      BY <1>1, <1>6, GetShape DEF tables
    <2>2. AnswersAreTrue'
      <3>1. CASE client'.pc = "exit" /\ client.pc = "cancel"
        <4>1. req'["main"] = req["main"] \/ req'["main"].pc = "idle"
          BY <1>1, <1>6, GetShape
        <4> QED
          BY <1>1, <1>2, <3>1, <4>1 DEF AnswersAreTrue, Promised
      <3>2. CASE req'["main"].pc = "idle"
        BY <1>2, <3>2 DEF AnswersAreTrue
      <3> QED
        BY <1>1, <1>6, <3>1, <3>2, GetShape
    <2>3. ToldTruth'
      <3>1. ASSUME NEW s \in Terminal, req["main"].pc = "done",
                   req["main"].response = "ok", Promised(s)
            PROVE  StoredAs(s)'
        BY <1>1, <1>3, <3>1 DEF AnswersAreTrue
      <3>2. client'.pc # "exit" => client'.outcome = "none"
        BY <1>1, <1>6, GetShape DEF ToldTruth
      <3>3. client'.pc = "exit" /\ client.pc = "cancel" => client'.outcome = "interrupted"
        BY <1>1, <1>6, GetShape
      <3>4. client.pc # "cancel" => req["main"].pc = "done"
        BY <1>1, <1>6, GetShape
      <3>5. client'.outcome = "completed" => StoredAs("completed")'
        BY <1>1, <1>2, <1>6, <3>1, <3>2, <3>3, <3>4, GetShape
      <3>6. client'.outcome = "rejected" => StoredAs("cancelled")'
        BY <1>1, <1>2, <1>6, <3>1, <3>2, <3>3, <3>4, GetShape
      <3>7. client'.outcome = "tool_result" /\ ~client'.ok => StoredAs("failed")'
        BY <1>1, <1>2, <1>6, <3>1, <3>2, <3>3, <3>4, GetShape
      <3> QED
        BY <3>2, <3>5, <3>6, <3>7 DEF ToldTruth, StoredAs
    <2> QED
      BY <2>2, <2>3 DEF TruthInv
  <1>7. CASE SendCreate \/ GetRun \/ Clarify \/ Decide \/ Interrupt \/ Timeout
    <2>1. /\ req' = req /\ runs' = runs /\ reply' = reply
          /\ client.pc # "exit"
          /\ client'.pc \in {"cancel", "exit"} \/ req["main"].pc = "idle"
          /\ client'.pc # "exit" => client'.outcome = client.outcome
          /\ client'.pc = "exit" =>
                client'.outcome \in {"error", "interrupted", "step_limit"}
      BY <1>1, <1>7, PromptShape DEF vars
    <2>2. AnswersAreTrue'
      BY <1>1, <1>2, <2>1 DEF AnswersAreTrue, Promised
    <2>3. ToldTruth'
      BY <1>1, <2>1 DEF ToldTruth
    <2> QED
      BY <2>2, <2>3 DEF TruthInv
  <1>8. CASE ToolStep
    <2>1. req' = req /\ client.pc = "execute" /\ req["main"].pc = "idle"
      BY <1>1, <1>8, ToolStepShape DEF vars, MainIsAwaited
    <2>2. AnswersAreTrue'
      BY <1>2, <2>1 DEF AnswersAreTrue
    <2>3. ToldTruth'
      BY <1>1, <1>8, <2>1, ToolReports DEF ToldTruth
    <2> QED
      BY <2>2, <2>3 DEF TruthInv
  <1>9. ASSUME NEW q \in Requests, Backend(q) PROVE TruthInv'
    <2>1. /\ HandlerStep(q) /\ client' = client
          /\ \A q2 \in Requests \ {q} : req'[q2] = req[q2]
          /\ req[q].pc \in Pending
      BY <1>1, <1>9, HandlerStepFrame DEF Backend
    <2>2. CASE q # "main"
      <3>1. req'["main"] = req["main"] /\ reply' = reply
        BY <1>1, <1>9, <2>1, <2>2 DEF Backend
      <3>2. AnswersAreTrue'
        BY <1>1, <1>3, <2>1, <3>1 DEF AnswersAreTrue, Promised, StoredAs
      <3> QED
        BY <1>4, <2>1, <3>2 DEF TruthInv
    <2>3. CASE q = "main"
      <3>1. reply'.status = req["main"].next.status
        BY <1>9, <2>3 DEF Backend
      <3>2. /\ req["main"].run = Run /\ req'["main"].run = Run
            /\ req["main"].next.status \in Terminal =>
                  /\ req'["main"].pc \in Pending => req'["main"].next = req["main"].next
                  /\ req'["main"].pc = "done" /\ req'["main"].response = "ok" =>
                        \A s \in Terminal :
                           s = req["main"].next.status => StoredAs(s)'
        <4>1. req["main"].run = Run
          BY <1>1, <1>2, <2>1, <2>3 DEF AnswersAreTrue
        <4> QED
          BY <1>1, <2>1, <2>3, <4>1, TerminalReply DEF StoredAs
      <3>3. /\ client.pc = "approval" /\ ~client.ok
                  => req["main"].next.status = "cancelled"
            /\ client.pc = "submit" /\ ~client.ok
                  => req["main"].next.status = "failed"
        BY <1>1, <2>1, <2>3 DEF AnswersAreTrue
      <3>4. ASSUME NEW s \in Terminal, req'["main"].pc = "done",
                   req'["main"].response = "ok", Promised(s)'
            PROVE  StoredAs(s)'
        <4>1. s = req["main"].next.status
          BY <2>1, <3>1, <3>3, <3>4 DEF Promised
        <4> QED
          BY <3>2, <3>4, <4>1
      <3>5. /\ req'["main"].pc \in Pending /\ client'.pc = "approval" /\ ~client'.ok
                  => req'["main"].next.status = "cancelled"
            /\ req'["main"].pc \in Pending /\ client'.pc = "submit" /\ ~client'.ok
                  => req'["main"].next.status = "failed"
        BY <1>2, <2>1, <3>2, <3>3
      <3>6. AnswersAreTrue'
        BY <3>2, <3>4, <3>5 DEF AnswersAreTrue
      <3> QED
        BY <1>4, <2>1, <3>6 DEF TruthInv
    <2> QED
      BY <2>2, <2>3
  <1>10. CASE CreateRun \/ \E q \in Requests : BackendFails(q) \/ Discard(q)
    <2>1. /\ client' = client /\ reply' = reply
          /\ \/ req'["main"] = req["main"] \/ req'["main"].pc = "idle"
             \/ /\ req'["main"].pc = "done" /\ req'["main"].response = "error"
                /\ req'["main"].run = req["main"].run /\ req["main"].pc # "idle"
      BY <1>1, <1>2, <1>10 DEF CreateRun, CreateAgentRun, BackendFails, Abort, Discard,
         Respond, Await, Answered, Answer, Idle, clientVars
    <2>2. AnswersAreTrue'
      BY <1>1, <1>2, <1>3, <2>1 DEF AnswersAreTrue, Promised, StoredAs
    <2> QED
      BY <1>4, <2>1, <2>2 DEF TruthInv
  <1> QED
    BY <1>5, <1>6, <1>7, <1>8, <1>9, <1>10, StepKinds DEF LocalStepOnly, ToolStep

\* TrueInv is inductive.
LEMMA NextTrueInv == TrueInv /\ [LocalNext]_allVars => TrueInv'
  <1> SUFFICES ASSUME TrueInv, [LocalNext]_allVars PROVE TrueInv'
    OBVIOUS
  <1>1. LocalInv'
    BY NextLocalInv DEF TrueInv
  <1>2. CASE LocalNext
    BY <1>1, <1>2, NextReportInv, NextTruthInv DEF TrueInv
  <1>3. CASE UNCHANGED allVars
    <2>1. ReportInv'
      BY <1>3 DEF allVars, vars, clientVars, TrueInv, ReportInv, ChildIsTracked,
         ResultsAreSubmitted, NotYetReported, ResultsWereExecuted, ReportFits
    <2>2. TruthInv'
      BY <1>3 DEF allVars, vars, clientVars, TrueInv, TruthInv, AnswersAreTrue,
         ToldTruth, Promised, StoredAs
    <2> QED
      BY <1>1, <2>1, <2>2 DEF TrueInv
  <1> QED
    BY <1>2, <1>3

\* What the audit and the user are told is what happened, in every behaviour.
THEOREM TruthInvariance == LocalSpec => []TrueInv
  BY InitTrueInv, NextTrueInv, PTL DEF LocalSpec

\* No result is stored for a tool that did not run, nor one that contradicts
\* what the tool did, save the timeout of a reading tool.
THEOREM AuditIsTrue == LocalSpec => []ResultsWereExecuted
  <1>1. TrueInv => ResultsWereExecuted
    BY DEF TrueInv, ReportInv
  <1> QED
    BY <1>1, TruthInvariance, PTL

\* The outcome the user is told is the stored one.
THEOREM ToldOutcome == LocalSpec => []OutcomeIsTrue
  <1>1. TrueInv => OutcomeIsTrue
    BY DEF TrueInv, TruthInv, ToldTruth, StoredAs, OutcomeIsTrue
  <1> QED
    BY <1>1, TruthInvariance, PTL

--------------------------------------------------------------------------------
(***************************************************************************)
(* The client comes nearer to its exit                                     *)
(***************************************************************************)

Sending == {"plan", "tools", "next", "approval", "reject", "submit"}

RankTyped == /\ req \in [Requests -> Request]
             /\ client.pc \in ClientPC
             /\ DEFAULT_MAX_AGENT_STEPS - client.turn \in Nat
             /\ Stage[client.pc] \in 0 .. 11
             /\ AwaitLeft \in 0 .. 6

\* The parts of the rank keep within their digits.
LEMMA RankDigits == LocalInv => RankTyped
  <1> SUFFICES ASSUME LocalInv PROVE RankTyped
    OBVIOUS
  <1>1. /\ req \in [Requests -> Request] /\ client.pc \in ClientPC
        /\ client.turn \in 0 .. DEFAULT_MAX_AGENT_STEPS - 1
    BY DEF LocalInv, IndInv, TypeOK, ClientInv, LocalTypeOK
  <1>2. Stage[client.pc] \in 0 .. 11
    BY <1>1 DEF Stage, ClientPC
  <1>3. \A q \in Requests : AnswerLeft(req[q]) \in 0 .. 6
    BY DEF AnswerLeft, StepsLeft
  <1>4. ChildLeft \in 1 .. 4
    BY DEF ChildLeft
  <1>5. AwaitLeft \in 0 .. 6
    BY <1>3, <1>4, Slots DEF AwaitLeft
  <1> QED
    BY <1>1, <1>2, <1>5, Turns DEF RankTyped

\* The order of two ranks is that of their first different digits.
LEMMA DigitsCompare ==
    ASSUME NEW a \in Nat, NEW s \in 0 .. 11, NEW t \in 0 .. 11,
           NEW x \in 0 .. 6, NEW y \in 0 .. 6
    PROVE  /\ (a - 1) * 84 + t * 7 + y < a * 84 + s * 7 + x
           /\ t < s => a * 84 + t * 7 + y < a * 84 + s * 7 + x
           /\ y < x => a * 84 + t * 7 + y < a * 84 + t * 7 + x
  OBVIOUS

\* What lowers the rank: another pass of the loop, a later place, or a step of
\* what the client awaits.
LEMMA RankFalls ==
    ASSUME LocalInv, LocalInv'
    PROVE  /\ client'.turn = client.turn + 1 => ClientRank' < ClientRank
           /\ client'.turn = client.turn /\ Stage[client'.pc] < Stage[client.pc]
              => ClientRank' < ClientRank
           /\ client' = client /\ AwaitLeft' < AwaitLeft => ClientRank' < ClientRank
  <1> DEFINE a == DEFAULT_MAX_AGENT_STEPS - client.turn
             b == DEFAULT_MAX_AGENT_STEPS - client'.turn
             s == Stage[client.pc]
             t == Stage[client'.pc]
  <1>1. /\ s \in 0 .. 11 /\ AwaitLeft \in 0 .. 6 /\ a \in Nat
        /\ t \in 0 .. 11 /\ AwaitLeft' \in 0 .. 6 /\ b \in Nat
    <2>1. RankTyped /\ RankTyped'
      BY RankDigits, PTL
    <2> QED
      BY <2>1 DEF RankTyped, Stage
  <1>2. ClientRank = a * 84 + s * 7 + AwaitLeft
    BY DEF ClientRank
  <1>3. ClientRank' = b * 84 + t * 7 + AwaitLeft'
    BY DEF ClientRank, Stage
  <1>4. client'.turn = client.turn + 1 => b = a - 1
    <2>1. client.turn \in Nat /\ client'.turn \in Nat
      BY DEF LocalInv, ClientInv, LocalTypeOK
    <2> QED
      BY <2>1, Turns
  <1> HIDE DEF a, b, s, t
  <1>5. /\ (a - 1) * 84 + t * 7 + AwaitLeft' < a * 84 + s * 7 + AwaitLeft
        /\ t < s => a * 84 + t * 7 + AwaitLeft' < a * 84 + s * 7 + AwaitLeft
        /\ AwaitLeft' < AwaitLeft
           => a * 84 + t * 7 + AwaitLeft' < a * 84 + t * 7 + AwaitLeft
    BY <1>1, DigitsCompare, Zenon
  <1>6. /\ b = a - 1 => ClientRank' < ClientRank
        /\ b = a /\ t < s => ClientRank' < ClientRank
        /\ b = a /\ t = s /\ AwaitLeft' < AwaitLeft => ClientRank' < ClientRank
    BY <1>2, <1>3, <1>5, Zenon
  <1> QED
    BY <1>4, <1>6 DEF a, b, s, t

\* A prompt, Ctrl+C and a timeout lead to a later place.
LEMMA PromptFalls ==
    ASSUME LocalInv, SendCreate \/ GetRun \/ Clarify \/ Decide \/ Interrupt \/ Timeout
    PROVE  \/ client'.turn = client.turn + 1
           \/ client'.turn = client.turn /\ Stage[client'.pc] < Stage[client.pc]
  <1>1. client \in [pc : ClientPC, mode : {"goal", "tool"},
                    turn : 0 .. DEFAULT_MAX_AGENT_STEPS - 1,
                    call : CallIds \cup {None}, ok : BOOLEAN, outcome : Outcomes]
    BY DEF LocalInv, ClientInv, LocalTypeOK
  <1>2. ASSUME NEW outcome, Exit(outcome)
        PROVE  client'.pc = "exit" /\ client'.turn = client.turn
    BY <1>1, <1>2 DEF Exit
  <1>3. ASSUME NEW pc, Goto(pc)
        PROVE  client'.pc = pc /\ client'.turn = client.turn
    BY <1>1, <1>3 DEF Goto
  <1>4. CASE SendCreate \/ GetRun
    BY <1>3, <1>4 DEF SendCreate, GetRun, Stage
  <1>5. CASE Clarify
    <2>1. CASE Exit("error") \/ Exit("step_limit")
      BY <1>2, <1>5, <2>1 DEF Clarify, Stage
    <2>2. CASE client' = [client EXCEPT !.pc = "next", !.turn = @ + 1]
      BY <1>1, <2>2
    <2> QED
      BY <1>5, <2>1, <2>2 DEF Clarify, NextTurn
  <1>6. CASE Decide
    <2>1. client.pc = "decide" /\ client'.pc = "approval" /\ client'.turn = client.turn
      <3>1. ASSUME NEW v, client' = [client EXCEPT !.pc = "approval", !.ok = v]
            PROVE  client'.pc = "approval" /\ client'.turn = client.turn
        BY <1>1, <3>1
      <3> QED
        BY <1>6, <3>1, Zenon DEF Decide
    <2> QED
      BY <2>1 DEF Stage
  <1>7. CASE Interrupt
    <2>1. \/ client.pc \in Sending \cup {"clarify", "decide"} /\ Goto("cancel")
          \/ client.pc = "create" /\ Exit("interrupted")
      BY <1>7 DEF Interrupt, Interruptible, Sending
    <2> QED
      BY <1>2, <1>3, <2>1 DEF Sending, Stage
  <1>8. CASE Timeout
    <2>1. /\ client.pc \in Sending \cup {"create", "cancel"}
          /\ Exit("error") \/ Exit("interrupted")
      BY <1>8 DEF Timeout, Sending
    <2> QED
      BY <1>2, <2>1 DEF Sending, Stage
  <1> QED
    BY <1>4, <1>5, <1>6, <1>7, <1>8

\* An answer leads to a later place, or to the next pass.
LEMMA GetFalls ==
    ASSUME LocalInv, GetStepAny
    PROVE  \/ client'.turn = client.turn + 1
           \/ client'.turn = client.turn /\ Stage[client'.pc] < Stage[client.pc]
  <1>1. client \in [pc : ClientPC, mode : {"goal", "tool"},
                    turn : 0 .. DEFAULT_MAX_AGENT_STEPS - 1,
                    call : CallIds \cup {None}, ok : BOOLEAN, outcome : Outcomes]
    BY DEF LocalInv, ClientInv, LocalTypeOK
  <1>2. ASSUME NEW outcome, Exit(outcome)
        PROVE  client'.pc = "exit" /\ client'.turn = client.turn
    BY <1>1, <1>2 DEF Exit
  <1>3. ASSUME NEW pc, Goto(pc)
        PROVE  client'.pc = pc /\ client'.turn = client.turn
    BY <1>1, <1>3 DEF Goto
  <1>4. ASSUME TakeProposal
        PROVE  /\ client'.pc \in {"exit", "execute", "decide", "reject"}
               /\ client'.turn = client.turn
    BY <1>1, <1>2, <1>4 DEF TakeProposal
  <1>5. ASSUME NextTurn
        PROVE  \/ client'.turn = client.turn + 1
               \/ client'.pc = "exit" /\ client'.turn = client.turn
    BY <1>1, <1>2, <1>5 DEF NextTurn
  <1>6. CASE GetPlanned
    BY <1>2, <1>3, <1>6 DEF GetPlanned, Gets, Stage
  <1>7. CASE GetProposal
    BY <1>2, <1>4, <1>7 DEF GetProposal, Gets, Stage
  <1>8. CASE GetStep
    BY <1>2, <1>3, <1>4, <1>8 DEF GetStep, Gets, Stage
  <1>9. CASE GetApproval
    BY <1>2, <1>3, <1>9 DEF GetApproval, Gets, Stage
  <1>10. CASE GetRejection \/ GetCancelled
    BY <1>2, <1>10 DEF GetRejection, GetCancelled, Gets, Stage
  <1>11. CASE GetResult
    <2>1. client.pc = "submit" /\ (NextTurn \/ Exit("error") \/ Exit("tool_result"))
      BY <1>11 DEF GetResult, Gets
    <2> QED
      BY <1>2, <1>5, <2>1 DEF Stage
  <1> QED
    BY <1>6, <1>7, <1>8, <1>9, <1>10, <1>11 DEF GetStepAny

\* A tool ends, or its child has come further.
LEMMA ToolFalls ==
    ASSUME LocalInv, ToolStep
    PROVE  \/ client'.turn = client.turn /\ Stage[client'.pc] < Stage[client.pc]
           \/ client' = client /\ AwaitLeft' < AwaitLeft
  <1>1. /\ client \in [pc : ClientPC, mode : {"goal", "tool"},
                       turn : 0 .. DEFAULT_MAX_AGENT_STEPS - 1,
                       call : CallIds \cup {None}, ok : BOOLEAN, outcome : Outcomes]
        /\ child \in Child /\ (child.handler # "none" => child.state # "running")
        /\ client.pc = "execute"
    BY ToolStepShape DEF LocalInv, ClientInv, LocalTypeOK, ToolInv, ChildIsWatched
  <1>2. client' = client => AwaitLeft = ChildLeft /\ AwaitLeft' = ChildLeft'
    BY <1>1 DEF AwaitLeft
  <1>3. ASSUME NEW pc \in {"submit", "cancel", "exit"}, client'.pc = pc,
               client'.turn = client.turn
        PROVE  client'.turn = client.turn /\ Stage[client'.pc] < Stage[client.pc]
    BY <1>1, <1>3 DEF Stage
  <1>4. ASSUME NEW ok, Returns(ok)
        PROVE  client'.turn = client.turn /\ Stage[client'.pc] < Stage[client.pc]
    BY <1>1, <1>3, <1>4 DEF Returns
  <1>5. ASSUME Goto("cancel") \/ Exit("error")
        PROVE  client'.turn = client.turn /\ Stage[client'.pc] < Stage[client.pc]
    BY <1>1, <1>3, <1>5 DEF Goto, Exit
  <1>6. ASSUME NEW handler \in {"timeout", "cancel"}, KillTool(handler)
        PROVE  ChildLeft' < ChildLeft
    BY <1>1, <1>6 DEF KillTool, Kill, Awaited, ChildLeft, Child
  <1>7. CASE Execute
    BY <1>4, <1>7 DEF Execute
  <1>8. CASE StartTool
    <2>1. CASE Returns(FALSE)
      BY <1>4, <2>1
    <2>2. CASE StartChild /\ client' = client
      <3>1. ChildLeft = 4 /\ child'.handler = "none" /\ child'.state = "running"
        BY <2>2 DEF StartChild, NoChild, ChildLeft
      <3>2. ChildLeft' = 3
        BY <3>1 DEF ChildLeft
      <3> QED
        BY <1>2, <2>2, <3>1, <3>2
    <2> QED
      BY <1>8, <2>1, <2>2 DEF StartTool
  <1>9. CASE CollectTool \/ ReapTimedOut
    BY <1>4, <1>9 DEF CollectTool, ReapTimedOut
  <1>10. CASE ReapCancelled
    BY <1>5, <1>10 DEF ReapCancelled
  <1>11. CASE ToolTimeout
    BY <1>2, <1>5, <1>6, <1>11 DEF ToolTimeout
  <1>12. CASE InterruptTool
    BY <1>2, <1>5, <1>6, <1>12 DEF InterruptTool
  <1>13. ASSUME NEW state \in Ended, ToolEnds(state)
         PROVE  client' = client /\ AwaitLeft' < AwaitLeft
    BY <1>1, <1>2, <1>13 DEF ToolEnds, ChildEnds, Ended, ChildLeft, Child
  <1> QED
    BY <1>7, <1>8, <1>9, <1>10, <1>11, <1>12, <1>13 DEF ToolStep

\* What a client at its place awaits of the backend.
LEMMA AwaitedAnswer ==
    ASSUME LocalInv
    PROVE  /\ AwaitedSlots \subseteq {"main", "cancel"} /\ AwaitedSlots \subseteq Requests
           /\ \A q \in AwaitedSlots :
                 client.pc \in Sending \cup {"cancel"} => AwaitLeft = AnswerLeft(req[q])
           /\ client.pc \in Sending => AwaitedSlots = {"main"}
           /\ client.pc = "cancel" => AwaitedSlots = {"cancel"}
           /\ \A q \in AwaitedSlots :
                 req[q].pc # "idle" => client.pc \in Sending \cup {"cancel"}
  BY Slots DEF LocalInv, ClientInv, LocalTypeOK, ClientPC, ExchangeInv, MainIsAwaited,
     AwaitedSlots, AwaitLeft, Sending

\* Another handler state under the same client.
LEMMA AwaitedFalls ==
    ASSUME LocalInv, LocalInv', client' = client, NEW q \in AwaitedSlots,
           client.pc \in Sending \cup {"cancel"},
           AnswerLeft(req'[q]) < AnswerLeft(req[q])
    PROVE  ClientRank' < ClientRank
  <1>1. AwaitLeft = AnswerLeft(req[q])
    BY AwaitedAnswer
  <1>2. AwaitLeft' = AnswerLeft(req'[q])
    BY DEF AwaitLeft, AwaitedSlots, Sending
  <1> QED
    BY <1>1, <1>2, RankFalls

\* A request under way comes nearer to its answer.
LEMMA BackendFalls ==
    ASSUME LocalInv, LocalInv', NEW q \in Requests, Backend(q) \/ BackendFails(q)
    PROVE  ClientMoves => ClientRank' < ClientRank
  <1>1. /\ HandlerStep(q) \/ Abort(q)
        /\ UNCHANGED <<client, posted, child>>
    BY DEF Backend, BackendFails, clientVars
  <1>2. IndInv /\ req \in [Requests -> Request]
    BY DEF LocalInv, IndInv, TypeOK
  <1>3. \A p \in Requests \ {q} : req'[p] = req[p]
    BY <1>1, <1>2, HandlerMovesOne DEF Abort, Await
  <1>4. /\ req[q].pc \in Pending /\ StepsLeft(req'[q]) < StepsLeft(req[q])
    BY <1>1, <1>2, HandlerDescends
  <1>5. req'[q].pc # "idle"
    BY <1>1, <1>2, HandlerReply DEF Abort, Await, Answered, Answer
  <1>6. CASE q \in AwaitedSlots
    <2>1. req[q].pc # "idle"
      BY <1>4 DEF Pending, Writing, Planning
    <2>2. AnswerLeft(req'[q]) < AnswerLeft(req[q])
      BY <1>4, <1>5, <2>1 DEF AnswerLeft
    <2> QED
      BY <1>1, <1>6, <2>1, <2>2, AwaitedAnswer, AwaitedFalls
  <1>7. CASE q \notin AwaitedSlots
    BY <1>1, <1>3, <1>7, AwaitedAnswer DEF ClientMoves
  <1> QED
    BY <1>6, <1>7

\* A request that is sent has no more than five steps to take.
LEMMA SendFalls ==
    ASSUME LocalInv, LocalInv', SendStep
    PROVE  ClientMoves => ClientRank' < ClientRank
  <1>1. UNCHANGED <<client, posted, child>>
    BY SendsAreReceived DEF LocalInv, ClientInv, ExchangeInv, clientVars
  <1>2. /\ req \in [Requests -> Request] /\ "main" \in Requests
        /\ "cancel" \in Requests /\ "web" \in Requests
    BY Slots DEF LocalInv, IndInv, TypeOK
  <1>3. CASE UseWebPages
    <2>1. \A p \in Requests \ {"web"} : req'[p] = req[p]
      BY <1>2, <1>3 DEF UseWebPages, CancelAgentRun, ResolveAgentToolApproval, Await
    <2>2. \A p \in AwaitedSlots : p \in Requests \ {"web"}
      BY AwaitedAnswer
    <2> QED
      BY <1>1, <2>1, <2>2 DEF ClientMoves
  <1>4. ASSUME NEW q \in AwaitedSlots, client.pc \in Sending \cup {"cancel"},
               req[q].pc = "idle", req'[q].pc # "idle"
        PROVE  ClientRank' < ClientRank
    <2>1. StepsLeft(req'[q]) \in 0 .. 5
      BY DEF StepsLeft
    <2>2. AnswerLeft(req'[q]) < AnswerLeft(req[q])
      BY <1>4, <2>1 DEF AnswerLeft
    <2> QED
      BY <1>1, <1>4, <2>2, AwaitedFalls
  <1>5. CASE SendCancel
    <2>1. client.pc = "cancel" /\ req["cancel"].pc = "idle"
      BY <1>5 DEF SendCancel, Sends, CancelAgentRun, Receives
    <2>2. req'["cancel"].pc # "idle"
      BY <1>2, <1>5 DEF SendCancel, CancelAgentRun, Await, Suspended, Answer
    <2> QED
      BY <1>4, <2>1, <2>2, AwaitedAnswer
  <1>6. CASE SendPlan \/ SendTools \/ SendNext \/ SendApproval \/ SendResult
    <2>1. client.pc \in Sending /\ req["main"].pc = "idle"
      BY <1>6 DEF SendPlan, SendTools, SendNext, SendApproval, SendResult, Sends,
         BeginAgentPlanning, ProposeAgentTool, PlanNextAgentStep,
         ResolveAgentToolApproval, SubmitAgentToolResult, Receives, Sending
    <2>2. req'["main"].pc # "idle"
      BY <1>2, <1>6 DEF SendPlan, SendTools, SendNext, SendApproval, SendResult,
         BeginAgentPlanning, ProposeAgentTool, PlanNextAgentStep,
         ResolveAgentToolApproval, SubmitAgentToolResult, Await, Suspended, Answer
    <2> QED
      BY <1>4, <2>1, <2>2, AwaitedAnswer
  <1> QED
    BY <1>3, <1>5, <1>6 DEF SendStep

\* Whatever happens to the client brings it nearer to its exit, for every step
\* limit and every number of runs and calls.
THEOREM ProgressSafety == LocalSpec => ClientProgresses
  <1>1. ASSUME LocalInv, LocalInv', LocalNext
        PROVE  ClientMoves => ClientRank' < ClientRank
    <2>1. CASE LocalStepOnly
      BY <1>1, <2>1, PromptFalls, ToolFalls, RankFalls DEF LocalStepOnly, ToolStep
    <2>2. CASE SendStep
      BY <1>1, <2>2, SendFalls
    <2>3. CASE GetStepAny
      BY <1>1, <2>3, GetFalls, RankFalls
    <2>4. CASE CreateRun
      <3>1. /\ UNCHANGED <<client, child, req>> /\ posted /\ ~posted'
        BY <2>4 DEF CreateRun, CreateAgentRun
      <3>2. client.pc = "create" => AwaitLeft' < AwaitLeft
        BY <3>1 DEF AwaitLeft
      <3>3. ClientMoves => client.pc = "create"
        BY <3>1 DEF ClientMoves
      <3> QED
        BY <1>1, <3>1, <3>2, <3>3, RankFalls
    <2>5. CASE \E q \in Requests : Backend(q) \/ BackendFails(q)
      BY <1>1, <2>5, BackendFalls
    <2>6. ASSUME NEW q \in Requests, Discard(q) PROVE ~ClientMoves
      <3>1. /\ q \notin AwaitedSlots /\ UNCHANGED <<client, posted, child>>
            /\ req' = [req EXCEPT ![q] = Idle]
        BY <2>6 DEF Discard, Respond, Await, clientVars
      <3>2. AwaitedSlots \subseteq Requests /\ req \in [Requests -> Request]
        BY <1>1, AwaitedAnswer DEF LocalInv, IndInv, TypeOK
      <3> QED
        BY <3>1, <3>2 DEF ClientMoves
    <2> QED
      BY <1>1, <2>1, <2>2, <2>3, <2>4, <2>5, <2>6, StepKinds
  <1>2. LocalInv /\ LocalInv' /\ [LocalNext]_allVars
           => [ClientMoves => ClientRank' < ClientRank]_allVars
    BY <1>1
  <1> QED
    BY LocalInvariance, <1>2, PTL DEF LocalSpec, ClientProgresses

--------------------------------------------------------------------------------
(***************************************************************************)
(* Lines of tool output                                                    *)
(***************************************************************************)

\* A line of output, whole or cut.
AnyLine == [path : {"none", "wanted", "ignored"}, head : Nat, length : Nat]

LEMMA ShownFold ==
    /\ Shown(<<>>) = <<>>
    /\ \A s \in Seq(AnyLine) : Shown(s) \in Seq(AnyLine)
    /\ \A s \in Seq(AnyLine), e \in AnyLine :
          Shown(Append(s, e)) = IF Ignored(e) THEN Shown(s) ELSE Append(Shown(s), e)
  <1> DEFINE step == [p \in Seq(AnyLine) \X AnyLine |-> IF Ignored(p[2]) THEN p[1] ELSE Append(p[1], p[2])]
             R == [s \in Seq(AnyLine) |-> Shown(s)]
             Equation(g, s) ==
                g = [T \in SUBSET DOMAIN s |->
                        IF T = {} THEN <<>>
                        ELSE IF Ignored(s[Max(T)]) THEN g[T \ {Max(T)}] ELSE Append(g[T \ {Max(T)}], s[Max(T)])]
  <1>1. step \in Steps(Seq(AnyLine), AnyLine) /\ <<>> \in Seq(AnyLine)
    BY AppendProperties, EmptySeq DEF Steps
  <1>2. ASSUME NEW s \in Seq(AnyLine)
        PROVE  \E g : IsPartialTable(g, s, Seq(AnyLine), <<>>, step) /\ R[s] = g[DOMAIN s]
    <2>1. PICK f : IsTable(f, s, Seq(AnyLine), <<>>, step)
      <3> HIDE DEF step
      <3> QED
        BY <1>1, FoldTable
    <2>2. \A T \in SUBSET DOMAIN s : T # {} =>
             step[<<f[T \ {Max(T)}], s[Max(T)]>>] = IF Ignored(s[Max(T)]) THEN f[T \ {Max(T)}] ELSE Append(f[T \ {Max(T)}], s[Max(T)])
      BY <2>1, TablePositions DEF IsTable
    <2>3. Equation(f, s)
      <3> HIDE DEF step
      <3> QED
        BY <2>1, <2>2 DEF IsTable
    <2> DEFINE g == CHOOSE h : Equation(h, s)
    <2>4. Equation(g, s)
      <3> HIDE DEF Equation
      <3> QED
        BY <2>3
    <2>5. R[s] = g[DOMAIN s]
      BY DEF Shown, FoldLeft, MapThenFoldSet
    <2>6. IsPartialTable(g, s, Seq(AnyLine), <<>>, step)
      <3> HIDE DEF g
      <3> QED
        BY <2>4, TablePositions DEF IsPartialTable
    <2> QED
      BY <2>5, <2>6
  <1>3. IsFold(R, Seq(AnyLine), <<>>, AnyLine, step)
    <2>1. R = [s \in Seq(AnyLine) |-> R[s]]
      OBVIOUS
    <2> HIDE DEF step, R
    <2> QED
      BY <1>1, <1>2, <2>1, FoldEquations
  <1>4. \A s \in Seq(AnyLine) : R[s] = Shown(s)
    OBVIOUS
  <1>5. \A s \in Seq(AnyLine), e \in AnyLine : R[s] \in Seq(AnyLine) => step[<<R[s], e>>] = IF Ignored(e) THEN R[s] ELSE Append(R[s], e)
    <2> HIDE DEF R
    <2> QED
      OBVIOUS
  <1>6. <<>> \in Seq(AnyLine) /\ \A s \in Seq(AnyLine), e \in AnyLine : Append(s, e) \in Seq(AnyLine)
    BY EmptySeq, AppendProperties
  <1>7. Shown(<<>>) = <<>>
    <2> HIDE DEF step, R
    <2> QED
      BY <1>3, <1>4, <1>6 DEF IsFold
  <1>8. \A s \in Seq(AnyLine) : Shown(s) \in Seq(AnyLine)
    <2> HIDE DEF step, R
    <2> QED
      BY <1>3, <1>4 DEF IsFold
  <1>9. ASSUME NEW s \in Seq(AnyLine), NEW e \in AnyLine PROVE Shown(Append(s, e)) = IF Ignored(e) THEN Shown(s) ELSE Append(Shown(s), e)
    <2> HIDE DEF step, R
    <2>1. Shown(s) = R[s] /\ Shown(Append(s, e)) = R[Append(s, e)]
      BY <1>4, <1>6
    <2>2. R[s] \in Seq(AnyLine) /\ R[Append(s, e)] = step[<<R[s], e>>]
      BY <1>3 DEF IsFold
    <2> QED
      BY <1>5, <2>1, <2>2
  <1> QED
    BY <1>7, <1>8, <1>9

LEMMA ExtentFold ==
    /\ Extent(<<>>) = 0
    /\ \A s \in Seq(AnyLine) : Extent(s) \in Nat
    /\ \A s \in Seq(AnyLine), e \in AnyLine :
          Extent(Append(s, e)) = Extent(s) + e.length + 1
  <1> DEFINE step == [p \in Nat \X AnyLine |-> p[1] + p[2].length + 1]
             R == [s \in Seq(AnyLine) |-> Extent(s)]
             Equation(g, s) ==
                g = [T \in SUBSET DOMAIN s |->
                        IF T = {} THEN 0
                        ELSE g[T \ {Max(T)}] + s[Max(T)].length + 1]
  <1>1. step \in Steps(Nat, AnyLine) /\ 0 \in Nat
    BY DEF Steps, AnyLine
  <1>2. ASSUME NEW s \in Seq(AnyLine)
        PROVE  \E g : IsPartialTable(g, s, Nat, 0, step) /\ R[s] = g[DOMAIN s]
    <2>1. PICK f : IsTable(f, s, Nat, 0, step)
      <3> HIDE DEF step
      <3> QED
        BY <1>1, FoldTable
    <2>2. \A T \in SUBSET DOMAIN s : T # {} =>
             step[<<f[T \ {Max(T)}], s[Max(T)]>>] = f[T \ {Max(T)}] + s[Max(T)].length + 1
      BY <2>1, TablePositions DEF IsTable
    <2>3. Equation(f, s)
      <3> HIDE DEF step
      <3> QED
        BY <2>1, <2>2 DEF IsTable
    <2> DEFINE g == CHOOSE h : Equation(h, s)
    <2>4. Equation(g, s)
      <3> HIDE DEF Equation
      <3> QED
        BY <2>3
    <2>5. R[s] = g[DOMAIN s]
      BY DEF Extent, FoldLeft, MapThenFoldSet
    <2>6. IsPartialTable(g, s, Nat, 0, step)
      <3> HIDE DEF g
      <3> QED
        BY <2>4, TablePositions DEF IsPartialTable
    <2> QED
      BY <2>5, <2>6
  <1>3. IsFold(R, Nat, 0, AnyLine, step)
    <2>1. R = [s \in Seq(AnyLine) |-> R[s]]
      OBVIOUS
    <2> HIDE DEF step, R
    <2> QED
      BY <1>1, <1>2, <2>1, FoldEquations
  <1>4. \A s \in Seq(AnyLine) : R[s] = Extent(s)
    OBVIOUS
  <1>5. \A s \in Seq(AnyLine), e \in AnyLine : R[s] \in Nat => step[<<R[s], e>>] = R[s] + e.length + 1
    <2> HIDE DEF R
    <2> QED
      OBVIOUS
  <1>6. <<>> \in Seq(AnyLine) /\ \A s \in Seq(AnyLine), e \in AnyLine : Append(s, e) \in Seq(AnyLine)
    BY EmptySeq, AppendProperties
  <1>7. Extent(<<>>) = 0
    <2> HIDE DEF step, R
    <2> QED
      BY <1>3, <1>4, <1>6 DEF IsFold
  <1>8. \A s \in Seq(AnyLine) : Extent(s) \in Nat
    <2> HIDE DEF step, R
    <2> QED
      BY <1>3, <1>4 DEF IsFold
  <1>9. ASSUME NEW s \in Seq(AnyLine), NEW e \in AnyLine PROVE Extent(Append(s, e)) = Extent(s) + e.length + 1
    <2> HIDE DEF step, R
    <2>1. Extent(s) = R[s] /\ Extent(Append(s, e)) = R[Append(s, e)]
      BY <1>4, <1>6
    <2>2. R[s] \in Nat /\ R[Append(s, e)] = step[<<R[s], e>>]
      BY <1>3 DEF IsFold
    <2> QED
      BY <1>5, <2>1, <2>2
  <1> QED
    BY <1>7, <1>8, <1>9

\* Lines of which none is ignored are all shown.
LEMMA AllShown ==
    ASSUME NEW s \in Seq(AnyLine), \A i \in 1 .. Len(s) : ~Ignored(s[i])
    PROVE  Shown(s) = s
  <1> DEFINE S == {t \in Seq(AnyLine) : (\A i \in 1 .. Len(t) : ~Ignored(t[i])) => Shown(t) = t}
  <1>1. <<>> \in S
    BY ShownFold, EmptySeq
  <1>2. ASSUME NEW t \in Seq(AnyLine), NEW e \in AnyLine, t \in S PROVE Append(t, e) \in S
    <2> DEFINE u == Append(t, e)
    <2>1. /\ u \in Seq(AnyLine) /\ Len(t) \in Nat /\ Len(u) = Len(t) + 1 /\ u[Len(t) + 1] = e
          /\ \A i \in 1 .. Len(t) : u[i] = t[i]
      BY AppendProperties, LenProperties
    <2>2. Shown(u) = IF Ignored(e) THEN Shown(t) ELSE Append(Shown(t), e)
      BY ShownFold
    <2> HIDE DEF u
    <2>3. ASSUME \A i \in 1 .. Len(u) : ~Ignored(u[i]) PROVE Shown(u) = u
      <3>1. ~Ignored(e)
        <4>1. Len(t) + 1 \in 1 .. Len(u)
          BY <2>1
        <4> QED
          BY <2>1, <2>3, <4>1
      <3>2. \A i \in 1 .. Len(t) : ~Ignored(t[i])
        <4>1. \A i \in 1 .. Len(t) : i \in 1 .. Len(u)
          BY <2>1
        <4> QED
          BY <2>1, <2>3, <4>1
      <3>3. Shown(t) = t
        BY <1>2, <3>2
      <3> QED
        BY <2>2, <3>1, <3>3 DEF u
    <2> QED
      BY <2>1, <2>3 DEF u
  <1>3. Seq(AnyLine) \subseteq S
    <2> HIDE DEF S
    <2> QED
      BY <1>1, <1>2, SeqInd
  <1> QED
    BY <1>3

\* No line that is shown is ignored, and what is shown is no longer.
LEMMA ShownLines ==
    ASSUME NEW s \in Seq(AnyLine)
    PROVE  /\ \A i \in 1 .. Len(Shown(s)) : ~Ignored(Shown(s)[i])
           /\ Extent(Shown(s)) <= Extent(s)
  <1> DEFINE S == {t \in Seq(AnyLine) :
                     /\ \A i \in 1 .. Len(Shown(t)) : ~Ignored(Shown(t)[i])
                     /\ Extent(Shown(t)) <= Extent(t)}
  <1>1. <<>> \in S
    BY ShownFold, ExtentFold, EmptySeq
  <1>2. ASSUME NEW t \in Seq(AnyLine), NEW e \in AnyLine, t \in S PROVE Append(t, e) \in S
    <2>0. Append(t, e) \in Seq(AnyLine) /\ e.length \in Nat
      BY AppendProperties DEF AnyLine
    <2>1. /\ Extent(t) \in Nat /\ Extent(Shown(t)) \in Nat /\ Shown(t) \in Seq(AnyLine)
          /\ Extent(Append(t, e)) = Extent(t) + e.length + 1
          /\ Extent(Append(Shown(t), e)) = Extent(Shown(t)) + e.length + 1
      BY ShownFold, ExtentFold
    <2>2. CASE Ignored(e)
      <3>1. Shown(Append(t, e)) = Shown(t)
        BY <2>2, ShownFold
      <3>2. Extent(Shown(t)) <= Extent(Append(t, e))
        BY <1>2, <2>0, <2>1
      <3> QED
        BY <1>2, <2>0, <3>1, <3>2
    <2>3. CASE ~Ignored(e)
      <3>1. Shown(Append(t, e)) = Append(Shown(t), e)
        BY <2>3, ShownFold
      <3> DEFINE u == Append(Shown(t), e)
                 v == Shown(t)
      <3>2. /\ Len(v) \in Nat /\ Len(u) = Len(v) + 1 /\ u[Len(v) + 1] = e
            /\ \A i \in 1 .. Len(v) : u[i] = v[i]
        BY <2>1, AppendProperties, LenProperties
      <3>3. \A i \in 1 .. Len(v) : ~Ignored(v[i])
        BY <1>2
      <3>4. Extent(u) <= Extent(Append(t, e))
        BY <1>2, <2>0, <2>1
      <3> HIDE DEF u, v
      <3>5. \A i \in 1 .. Len(u) : i \in 1 .. Len(v) \/ i = Len(v) + 1
        BY <3>2
      <3>6. \A i \in 1 .. Len(u) : ~Ignored(u[i])
        BY <2>3, <3>2, <3>3, <3>5
      <3> QED
        BY <2>0, <3>1, <3>4, <3>6 DEF u
    <2> QED
      BY <2>2, <2>3
  <1>3. Seq(AnyLine) \subseteq S
    <2> HIDE DEF S
    <2> QED
      BY <1>1, <1>2, SeqInd
  <1> QED
    BY <1>3

\* A prefix is made of lines too.
LEMMA PrefixLines ==
    ASSUME NEW s \in Seq(AnyLine), NEW k \in 0 .. Len(s)
    PROVE  SubSeq(s, 1, k) \in Seq(AnyLine) /\ Extent(SubSeq(s, 1, k)) \in Nat
  <1>1. Len(s) \in Nat /\ \A i \in 1 .. k : s[i] \in AnyLine
    BY LenProperties, ElementOfSeq
  <1>2. SubSeq(s, 1, k) \in Seq(AnyLine)
    BY <1>1, SubSeqProperties
  <1> QED
    BY <1>2, ExtentFold

\* A prefix is no longer than the whole.
LEMMA PrefixExtent ==
    ASSUME NEW s \in Seq(AnyLine), NEW k \in 0 .. Len(s)
    PROVE  Extent(SubSeq(s, 1, k)) <= Extent(s)
  <1> DEFINE S == {t \in Seq(AnyLine) :
                     \A n \in 0 .. Len(t) : Extent(SubSeq(t, 1, n)) <= Extent(t)}
  <1>1. <<>> \in S
    <2>1. SubSeq(<<>>, 1, 0) = <<>> /\ <<>> \in Seq(AnyLine) /\ Len(<<>>) = 0
      BY EmptySeq, SubSeqEmpty
    <2>2. Extent(<<>>) <= Extent(<<>>)
      BY ExtentFold
    <2>3. \A n \in 0 .. 0 : n = 0
      OBVIOUS
    <2> QED
      BY <2>1, <2>2, <2>3
  <1>2. ASSUME NEW t \in Seq(AnyLine), NEW e \in AnyLine, t \in S PROVE Append(t, e) \in S
    <2> DEFINE u == Append(t, e)
    <2>1. /\ u \in Seq(AnyLine) /\ Len(t) \in Nat /\ Len(u) = Len(t) + 1 /\ e.length \in Nat
          /\ Extent(t) \in Nat /\ Extent(u) = Extent(t) + e.length + 1
      BY AppendProperties, LenProperties, ExtentFold DEF AnyLine
    <2>2. ASSUME NEW n \in 0 .. Len(u) PROVE Extent(SubSeq(u, 1, n)) <= Extent(u)
      <3>1. CASE n \in 0 .. Len(t)
        <4>1. SubSeq(u, 1, n) = SubSeq(t, 1, n)
          BY <3>1, PrefixStays
        <4>2. Extent(SubSeq(t, 1, n)) <= Extent(t)
          BY <1>2, <3>1
        <4>3. Extent(SubSeq(t, 1, n)) \in Nat
          BY <3>1, PrefixLines
        <4>4. Extent(SubSeq(t, 1, n)) <= Extent(t) + e.length + 1
          BY ONLY <2>1, <4>2, <4>3
        <4> QED
          BY ONLY <2>1, <4>1, <4>4
      <3>2. CASE n = Len(u)
        <4>1. SubSeq(u, 1, n) = u
          BY <2>1, <3>2, SubSeqFull
        <4>2. Extent(u) <= Extent(u)
          BY ONLY <2>1
        <4> QED
          BY ONLY <4>1, <4>2
      <3> QED
        BY <2>1, <3>1, <3>2
    <2> QED
      BY <2>1, <2>2
  <1>3. Seq(AnyLine) \subseteq S
    <2> HIDE DEF S
    <2> QED
      BY <1>1, <1>2, SeqInd
  <1> QED
    BY <1>3

--------------------------------------------------------------------------------
(***************************************************************************)
(* Bounding.  The lines that fit, whole or cut, are the first m of them.    *)
(***************************************************************************)

Limit == MAX_TOOL_OUTPUT_LENGTH

LEMMA LimitIsPositive == Limit \in Nat /\ Limit > 0
  BY OutputAssumption DEF Limit

LEMMA OutputLines ==
    ASSUME NEW lines \in Seq(OutputLine)
    PROVE  /\ lines \in Seq(AnyLine) /\ Len(lines) \in Nat /\ DOMAIN lines = 1 .. Len(lines)
           /\ \A k \in 1 .. Len(lines) :
                 /\ lines[k] \in AnyLine
                 /\ lines[k].length \in Nat /\ lines[k].length >= 1
  <1>1. OutputLine \subseteq AnyLine
    BY DEF OutputLine, AnyLine
  <1>2. lines \in Seq(AnyLine)
    BY <1>1, SeqMonotonic
  <1>3. \A k \in 1 .. Len(lines) : lines[k] \in OutputLine
    BY LenProperties, ElementOfSeq
  <1>4. \A line \in OutputLine : line.length \in Nat /\ line.length >= 1
    BY DEF OutputLine
  <1> QED
    BY <1>1, <1>2, <1>3, <1>4, LenProperties

\* Offsets grow by a line and its end, up to the extent of all lines.
LEMMA OffsetStep ==
    ASSUME NEW lines \in Seq(OutputLine), NEW k \in 1 .. Len(lines)
    PROVE  /\ Offset(lines, k) \in Nat
           /\ Extent(SubSeq(lines, 1, k)) = Offset(lines, k) + lines[k].length + 1
  <1>1. lines \in Seq(AnyLine) /\ Len(lines) \in Nat
    BY OutputLines
  <1>2. k - 1 \in 0 .. Len(lines) - 1 /\ k - 1 \in 0 .. Len(lines) /\ (k - 1) + 1 = k
    BY <1>1
  <1>3. Extent(SubSeq(lines, 1, k - 1)) \in Nat
    BY <1>1, <1>2, PrefixLines
  <1>4. /\ SubSeq(lines, 1, k - 1) \in Seq(AnyLine) /\ lines[k] \in AnyLine
        /\ SubSeq(lines, 1, k) = Append(SubSeq(lines, 1, k - 1), lines[k])
    <2>1. /\ SubSeq(lines, 1, k - 1) \in Seq(AnyLine) /\ lines[(k - 1) + 1] \in AnyLine
          /\ SubSeq(lines, 1, (k - 1) + 1) = Append(SubSeq(lines, 1, k - 1), lines[(k - 1) + 1])
      BY <1>1, <1>2, PrefixGrows
    <2> QED
      BY <1>2, <2>1
  <1> QED
    BY <1>3, <1>4, ExtentFold DEF Offset

LEMMA OffsetsGrow ==
    ASSUME NEW lines \in Seq(OutputLine), NEW k \in 1 .. Len(lines), NEW j \in 1 .. k
    PROVE  Offset(lines, j) <= Offset(lines, k)
  <1>1. lines \in Seq(AnyLine) /\ Len(lines) \in Nat
    BY OutputLines
  <1> DEFINE N == {n \in Nat : j + n <= k => Offset(lines, j) <= Offset(lines, j + n)}
  <1>2. j + 0 \in 1 .. Len(lines) /\ j + 0 = j
    BY <1>1
  <1>3. 0 \in N
    BY <1>2, OffsetStep
  <1>4. ASSUME NEW n \in Nat, n \in N PROVE n + 1 \in N
    <2> SUFFICES ASSUME j + (n + 1) <= k
                 PROVE  Offset(lines, j) <= Offset(lines, j + (n + 1))
      OBVIOUS
    <2>1. j + n \in 1 .. Len(lines) /\ j + (n + 1) \in 1 .. Len(lines)
          /\ (j + (n + 1)) - 1 = j + n /\ j + n <= k /\ j \in 1 .. Len(lines)
      BY <1>1
    <2>2. Offset(lines, j) <= Offset(lines, j + n)
      BY <1>4, <2>1
    <2>3. Offset(lines, j) \in Nat /\ Offset(lines, j + n) \in Nat
          /\ Extent(SubSeq(lines, 1, j + n))
               = Offset(lines, j + n) + lines[j + n].length + 1
      BY <2>1, OffsetStep
    <2>4. Offset(lines, j + (n + 1)) = Extent(SubSeq(lines, 1, j + n))
      BY <2>1 DEF Offset
    <2>5. lines[j + n].length \in Nat
      BY <2>1, OutputLines
    <2> QED
      BY ONLY <2>2, <2>3, <2>4, <2>5
  <1>5. Nat \subseteq N
    <2> HIDE DEF N
    <2> QED
      BY <1>3, <1>4, NatInd
  <1>6. k - j \in Nat /\ j + (k - j) = k
    BY <1>1
  <1>7. j + (k - j) <= k => Offset(lines, j) <= Offset(lines, j + (k - j))
    BY <1>5, <1>6
  <1> QED
    BY <1>1, <1>6, <1>7

\* The part of line k that is kept.
Cut(lines, k) ==
    [lines[k] EXCEPT !.length = IF @ <= Limit - Offset(lines, k) THEN @
                                ELSE Limit - Offset(lines, k)]

\* All lines that start before the limit are kept; only the last may be cut.
LEMMA KeptLines ==
    ASSUME NEW lines \in Seq(OutputLine)
    PROVE  \E m \in 0 .. Len(lines) :
              /\ Bounded(lines) = [k \in 1 .. m |-> Cut(lines, k)]
              /\ \A k \in 1 .. Len(lines) : k \in 1 .. m <=> Offset(lines, k) < Limit
  <1> DEFINE n == Len(lines)
             K == {j \in DOMAIN lines : Limit - Offset(lines, j) > 0}
  <1>0. n \in Nat /\ DOMAIN lines = 1 .. n
    BY OutputLines
  <1>1. \A j \in 1 .. n : Offset(lines, j) \in Nat
    BY OffsetStep
  <1>2. K \in SUBSET (1 .. n) /\ \A j \in 1 .. n : j \in K <=> Offset(lines, j) < Limit
    BY <1>0, <1>1, LimitIsPositive
  <1>3. \E m \in 0 .. n : K = 1 .. m
    <2>1. CASE K = {}
      <3>1. 1 .. 0 = {} /\ 0 \in 0 .. n
        BY <1>0
      <3> QED
        BY <2>1, <3>1
    <2>2. CASE K # {}
      <3> DEFINE m == Max(K)
      <3> HIDE DEF K
      <3>1. m \in K /\ \A j \in K : m >= j
        BY <1>0, <1>2, <2>2, MaxIn
      <3> HIDE DEF m
      <3>2. m \in 1 .. n
        BY <1>2, <3>1
      <3>3. ASSUME NEW j \in 1 .. m PROVE j \in K
        <4>1. j \in 1 .. n
          BY <1>0, <3>2
        <4>2. Offset(lines, j) <= Offset(lines, m)
          BY <3>2, OffsetsGrow
        <4>3. Offset(lines, m) < Limit /\ Offset(lines, m) \in Nat /\ Offset(lines, j) \in Nat
          BY <1>1, <1>2, <3>1, <3>2, <4>1
        <4>4. Offset(lines, j) < Limit
          BY ONLY <4>2, <4>3, LimitIsPositive
        <4> QED
          BY <1>2, <4>1, <4>4
      <3>4. ASSUME NEW j \in K PROVE j \in 1 .. m
        <4>1. j \in 1 .. n /\ m >= j
          BY <1>2, <3>1
        <4> QED
          BY <1>0, <3>2, <4>1
      <3>5. K = 1 .. m
        BY ONLY <3>3, <3>4
      <3>6. m \in 0 .. n
        BY ONLY <1>0, <3>2
      <3> QED
        BY <3>5, <3>6
    <2> QED
      BY <2>1, <2>2
  <1>4. PICK m \in 0 .. n : K = 1 .. m
    BY <1>3
  <1>5. Cardinality(K) = m
    <2>1. m \in Int /\ 1 \in Int /\ m >= 0
      BY <1>0
    <2>2. Cardinality(1 .. m) = IF 1 > m THEN 0 ELSE m - 1 + 1
      BY <2>1, FS_Interval
    <2>3. Cardinality(1 .. m) = m
      BY ONLY <2>1, <2>2
    <2> HIDE DEF K
    <2> QED
      BY ONLY <1>4, <2>3
  <1>6. Bounded(lines) = [k \in 1 .. Cardinality(K) |-> Cut(lines, k)]
    BY DEF Bounded, Cut, Limit
  <1>7. Bounded(lines) = [k \in 1 .. m |-> Cut(lines, k)]
    BY <1>5, <1>6
  <1> HIDE DEF K
  <1> QED
    BY <1>2, <1>4, <1>7

\* Lines within the limit are all kept as they are; in any case what is kept is
\* within the limit (_bounded_text).
LEMMA BoundedLines ==
    ASSUME NEW lines \in Seq(OutputLine)
    PROVE  /\ Bounded(lines) \in Seq(AnyLine)
           /\ Size(lines) <= Limit => Bounded(lines) = lines
           /\ Size(Bounded(lines)) <= Limit
  <1> DEFINE n == Len(lines)
  <1>0. n \in Nat /\ lines \in Seq(AnyLine)
    BY OutputLines
  <1>1. PICK m \in 0 .. n :
           /\ Bounded(lines) = [k \in 1 .. m |-> Cut(lines, k)]
           /\ \A k \in 1 .. n : k \in 1 .. m <=> Offset(lines, k) < Limit
    BY KeptLines
  <1>2. m \in Nat /\ m <= n
    BY <1>0
  <1>3. ASSUME NEW k \in 1 .. m
        PROVE  /\ k \in 1 .. n
               /\ Offset(lines, k) \in Nat /\ Offset(lines, k) < Limit
               /\ lines[k] \in AnyLine /\ lines[k].length \in Nat /\ lines[k].length >= 1
               /\ Extent(SubSeq(lines, 1, k)) = Offset(lines, k) + lines[k].length + 1
    <2>1. k \in 1 .. n
      BY <1>2
    <2> QED
      BY <1>1, <2>1, OffsetStep, OutputLines
  <1>4. ASSUME NEW k \in 1 .. m
        PROVE  /\ Cut(lines, k) \in AnyLine
               /\ Cut(lines, k).length \in Nat
               /\ Offset(lines, k) + Cut(lines, k).length <= Limit
               /\ Offset(lines, k) + lines[k].length <= Limit => Cut(lines, k) = lines[k]
    <2>1. /\ Offset(lines, k) \in Nat /\ Offset(lines, k) < Limit
          /\ lines[k].length \in Nat
      BY <1>3
    <2>2. Limit - Offset(lines, k) \in Nat
      BY ONLY <2>1, LimitIsPositive
    <2>3. CASE lines[k].length <= Limit - Offset(lines, k)
      <3>1. Cut(lines, k) = lines[k]
        BY <1>3, <2>3 DEF Cut, AnyLine
      <3>2. Offset(lines, k) + lines[k].length <= Limit
        BY ONLY <2>1, <2>3, LimitIsPositive
      <3> QED
        BY <1>3, <3>1, <3>2
    <2>4. CASE ~(lines[k].length <= Limit - Offset(lines, k))
      <3>1. Cut(lines, k) = [lines[k] EXCEPT !.length = Limit - Offset(lines, k)]
        BY <2>4 DEF Cut
      <3>2. Cut(lines, k) \in AnyLine /\ Cut(lines, k).length = Limit - Offset(lines, k)
        BY <1>3, <2>2, <3>1 DEF AnyLine
      <3>3. Offset(lines, k) + (Limit - Offset(lines, k)) <= Limit
        BY ONLY <2>1, LimitIsPositive
      <3>4. ~(Offset(lines, k) + lines[k].length <= Limit)
        BY ONLY <2>1, <2>4, LimitIsPositive
      <3> QED
        BY <2>2, <3>2, <3>3, <3>4
    <2> QED
      BY <2>3, <2>4
  <1> DEFINE b == [k \in 1 .. m |-> Cut(lines, k)]
  <1>5. b \in Seq(AnyLine) /\ Len(b) = m
    BY <1>2, <1>4
  <1>6. Size(lines) <= Limit => Bounded(lines) = lines
    <2> SUFFICES ASSUME Size(lines) <= Limit PROVE Bounded(lines) = lines
      OBVIOUS
    <2>1. m = n
      <3>1. CASE n = 0
        BY <1>2, <3>1
      <3>2. CASE n # 0
        <4>1. n \in 1 .. n /\ lines # <<>>
          BY <1>0, <3>2, EmptySeq
        <4>2. Offset(lines, n) \in Nat
              /\ Extent(SubSeq(lines, 1, n)) = Offset(lines, n) + lines[n].length + 1
          BY <4>1, OffsetStep
        <4>3. lines[n].length \in Nat /\ lines[n].length >= 1
          BY <4>1, OutputLines
        <4>4. Extent(lines) - 1 <= Limit /\ SubSeq(lines, 1, n) = lines
          BY <1>0, <4>1, SubSeqFull DEF Size
        <4>5. Offset(lines, n) < Limit
          <5>1. Extent(lines) = Offset(lines, n) + lines[n].length + 1
            BY ONLY <4>2, <4>4
          <5>2. Extent(lines) - 1 <= Limit
            BY ONLY <4>4
          <5> QED
            BY ONLY <4>2, <4>3, <5>1, <5>2, LimitIsPositive
        <4>6. n \in 1 .. m
          BY <1>1, <4>1, <4>5
        <4> QED
          BY <1>2, <4>6
      <3> QED
        BY <3>1, <3>2
    <2>2. ASSUME NEW k \in 1 .. n PROVE Cut(lines, k) = lines[k]
      <3>0. k \in 1 .. m
        BY <2>1
      <3>1. /\ Offset(lines, k) \in Nat /\ lines[k].length \in Nat
            /\ Extent(SubSeq(lines, 1, k)) = Offset(lines, k) + lines[k].length + 1
        BY <1>3, <3>0
      <3>2. Extent(SubSeq(lines, 1, k)) <= Extent(lines) /\ Extent(lines) \in Nat
        BY <1>0, PrefixExtent, ExtentFold
      <3>3. lines # <<>>
        BY <1>0, EmptySeq
      <3>4. Extent(lines) - 1 <= Limit
        BY <3>3 DEF Size
      <3>5. Offset(lines, k) + lines[k].length <= Limit
        BY ONLY <3>1, <3>2, <3>4, LimitIsPositive
      <3> QED
        BY <1>4, <3>0, <3>5
    <2>3. Bounded(lines) = b /\ \A k \in 1 .. n : b[k] = lines[k]
      BY <1>1, <2>1, <2>2
    <2> HIDE DEF b
    <2> QED
      BY <1>0, <1>5, <2>1, <2>3, SeqEqual
  <1>7. Size(b) <= Limit
    <2>1. CASE m = 0
      <3>1. b = <<>>
        <4> HIDE DEF b
        <4> QED
          BY <1>5, <2>1, EmptySeq
      <3> HIDE DEF b
      <3> QED
        BY <3>1, LimitIsPositive DEF Size
    <2>2. CASE m # 0
      <3> DEFINE p == SubSeq(lines, 1, m - 1)
      <3>1. m \in 1 .. m /\ m \in 1 .. n /\ m - 1 \in 0 .. n /\ m - 1 \in Nat
            /\ (m - 1) + 1 = m
        BY <1>2, <2>2
      <3>2. p \in Seq(AnyLine) /\ Len(p) = m - 1 /\ \A k \in 1 .. m - 1 : p[k] = lines[k]
        <4>1. p \in Seq(AnyLine)
          BY <1>0, <3>1, PrefixLines
        <4>2. \A i \in 1 .. m - 1 : lines[i] \in AnyLine
          BY <3>1, OutputLines
        <4>3. Len(p) = IF 1 <= m - 1 THEN (m - 1) - 1 + 1 ELSE 0
          BY <3>1, <4>2, SubSeqProperties
        <4>4. \A i \in 1 .. (m - 1) - 1 + 1 : p[i] = lines[1 + i - 1]
          BY <3>1, <4>2, SubSeqProperties
        <4>5. \A i \in 1 .. m - 1 : 1 + i - 1 = i
          OBVIOUS
        <4>6. (m - 1) - 1 + 1 = m - 1
          BY <3>1
        <4> HIDE DEF p
        <4> QED
          BY <3>1, <4>1, <4>3, <4>4, <4>5, <4>6
      <3> DEFINE q == Append(p, Cut(lines, m))
      <3>3. /\ q \in Seq(AnyLine) /\ Len(q) = m /\ q[m] = Cut(lines, m)
            /\ \A k \in 1 .. m - 1 : q[k] = p[k]
        <4> HIDE DEF p
        <4>1. Cut(lines, m) \in AnyLine
          BY <1>4, <3>1
        <4>2. /\ q \in Seq(AnyLine) /\ Len(q) = Len(p) + 1 /\ q[Len(p) + 1] = Cut(lines, m)
              /\ \A k \in 1 .. Len(p) : q[k] = p[k]
          BY <3>2, <4>1, AppendProperties
        <4> HIDE DEF q
        <4> QED
          BY <3>1, <3>2, <4>2
      <3>4. ASSUME NEW k \in 1 .. m - 1 PROVE Cut(lines, k) = lines[k]
        <4>1. k \in 1 .. m /\ k + 1 \in 1 .. m /\ k + 1 \in 1 .. n /\ (k + 1) - 1 = k
          BY <1>2, <3>1
        <4>2. Offset(lines, k + 1) = Extent(SubSeq(lines, 1, k))
          BY <4>1 DEF Offset
        <4>3. Offset(lines, k + 1) < Limit
          BY <1>1, <4>1
        <4>4. /\ Offset(lines, k) \in Nat /\ lines[k].length \in Nat
              /\ Extent(SubSeq(lines, 1, k)) = Offset(lines, k) + lines[k].length + 1
          BY <1>3, <4>1
        <4>5. Offset(lines, k) + lines[k].length <= Limit
          BY ONLY <4>2, <4>3, <4>4, LimitIsPositive
        <4> QED
          BY <1>4, <4>1, <4>5
      <3>5. \A k \in 1 .. m : b[k] = Cut(lines, k)
        OBVIOUS
      <3>6. \A k \in 1 .. m : k \in 1 .. m - 1 \/ k = m
        BY <3>1
      <3>7. b = q
        <4> HIDE DEF b, q, p
        <4>1. \A k \in 1 .. m : b[k] = q[k]
          BY <3>2, <3>3, <3>4, <3>5, <3>6
        <4> QED
          BY <1>5, <3>3, <4>1, SeqEqual
      <3>8. Extent(q) = Offset(lines, m) + Cut(lines, m).length + 1
        <4>1. Cut(lines, m) \in AnyLine
          BY <1>4, <3>1
        <4> QED
          BY <3>2, <4>1, ExtentFold DEF Offset
      <3>9. /\ Offset(lines, m) \in Nat /\ Cut(lines, m).length \in Nat
            /\ Offset(lines, m) + Cut(lines, m).length <= Limit
        BY <1>3, <1>4, <3>1
      <3>10. Extent(q) - 1 <= Limit
        BY ONLY <3>8, <3>9, LimitIsPositive
      <3>11. q # <<>>
        <4> HIDE DEF q
        <4> QED
          BY <2>2, <3>3, EmptySeq
      <3> HIDE DEF b, q
      <3> QED
        BY <3>7, <3>10, <3>11 DEF Size
    <2> QED
      BY <2>1, <2>2
  <1> HIDE DEF b
  <1>8. Bounded(lines) = b
    BY <1>1 DEF b
  <1> QED
    BY <1>5, <1>6, <1>7, <1>8

\* What is shown of lines is no larger, a prefix of it neither, and showing it
\* again changes nothing.
LEMMA ShownPart ==
    ASSUME NEW lines \in Seq(AnyLine), Size(lines) <= Limit, NEW k \in 0 .. Len(Shown(lines))
    PROVE  LET part == SubSeq(Shown(lines), 1, k)
           IN  /\ Size(part) <= Limit
               /\ part = Shown(part)
               /\ Len(part) = k
  <1> DEFINE shown == Shown(lines)
             part == SubSeq(shown, 1, k)
  <1>1. shown \in Seq(AnyLine) /\ Len(shown) \in Nat /\ k \in 0 .. Len(shown)
    BY ShownFold, LenProperties
  <1>2. part \in Seq(AnyLine) /\ Extent(part) \in Nat /\ Extent(part) <= Extent(shown)
    BY <1>1, PrefixLines, PrefixExtent
  <1>3. \A i \in 1 .. Len(shown) : ~Ignored(shown[i])
    BY ShownLines
  <1>4. /\ Extent(shown) <= Extent(lines)
        /\ Extent(shown) \in Nat /\ Extent(lines) \in Nat
    BY <1>1, ShownLines, ExtentFold
  <1> HIDE DEF shown
  <1>5. Len(part) = k /\ \A i \in 1 .. k : part[i] = shown[i] /\ i \in 1 .. Len(shown)
    <2>1. \A i \in 1 .. k : shown[i] \in AnyLine /\ i \in 1 .. Len(shown)
      BY <1>1, ElementOfSeq
    <2>2. k \in Nat /\ k \in Int
      BY <1>1
    <2>3. Len(part) = IF 1 <= k THEN k - 1 + 1 ELSE 0
      BY <2>1, <2>2, SubSeqProperties
    <2>4. \A i \in 1 .. k - 1 + 1 : part[i] = shown[1 + i - 1]
      BY <2>1, <2>2, SubSeqProperties
    <2>5. k - 1 + 1 = k /\ \A i \in 1 .. k : 1 + i - 1 = i
      BY <2>2
    <2> HIDE DEF part
    <2> QED
      BY <2>1, <2>2, <2>3, <2>4, <2>5
  <1> HIDE DEF part
  <1>6. part = Shown(part)
    <2>1. \A i \in 1 .. Len(part) : ~Ignored(part[i])
      BY <1>3, <1>5
    <2> QED
      BY <1>2, <2>1, AllShown
  <1>7. Size(part) <= Limit
    <2>1. CASE part = <<>>
      BY <2>1, LimitIsPositive DEF Size
    <2>2. CASE part # <<>>
      <3>1. lines # <<>>
        <4> SUFFICES ASSUME lines = <<>> PROVE part = <<>>
          BY <2>2
        <4>1. shown = <<>> /\ Len(shown) = 0
          BY ShownFold, EmptySeq DEF shown
        <4>2. k = 0
          BY <4>1 DEF shown
        <4> QED
          BY <1>2, <1>5, <4>2, EmptySeq
      <3>2. Extent(lines) - 1 <= Limit
        BY <3>1 DEF Size
      <3>3. Extent(part) - 1 <= Limit
        BY ONLY <1>2, <1>4, <3>2, LimitIsPositive
      <3> QED
        BY <2>2, <3>3 DEF Size
    <2> QED
      BY <2>1, <2>2
  <1> QED
    BY <1>5, <1>6, <1>7 DEF part, shown

LEMMA ShownAll ==
    ASSUME NEW lines \in Seq(AnyLine), Size(lines) <= Limit
    PROVE  /\ Size(Shown(lines)) <= Limit
           /\ Shown(lines) = Shown(Shown(lines))
  <1>1. Shown(lines) \in Seq(AnyLine) /\ Len(Shown(lines)) \in Nat
    BY ShownFold, LenProperties
  <1>2. SubSeq(Shown(lines), 1, Len(Shown(lines))) = Shown(lines)
    BY <1>1, SubSeqFull
  <1>3. Len(Shown(lines)) \in 0 .. Len(Shown(lines))
    BY <1>1
  <1> QED
    BY <1>2, <1>3, ShownPart

\* What a reading tool submits of any output of its process, of any length, is
\* honest about what was left out (GitStatusExecutor, FileSearchExecutor).
THEOREM ReadingTools ==
    ASSUME NEW lines \in Seq(OutputLine), NEW noisy \in BOOLEAN, NEW max_results \in Nat \ {0}
    PROVE  ReadsHonestly(lines, noisy, max_results)
  <1> DEFINE b == Bounded(lines)
             truncated == noisy \/ Size(lines) > Limit
             shown == Shown(b)
             k == IF Len(shown) < max_results THEN Len(shown) ELSE max_results
             status == GitStatus(lines, noisy)
             found == FileSearch(lines, noisy, max_results)
  <1>1. b \in Seq(AnyLine) /\ Size(b) <= Limit /\ (Size(lines) <= Limit => b = lines)
    BY BoundedLines
  <1>2. shown \in Seq(AnyLine) /\ Len(shown) \in Nat
    BY <1>1, ShownFold, LenProperties
  <1>3. ~truncated => b = lines
    <2>1. Extent(lines) \in Nat
      BY OutputLines, ExtentFold
    <2>2. Size(lines) \in Int
      BY <2>1 DEF Size
    <2>3. ~(Size(lines) > Limit) => Size(lines) <= Limit
      BY ONLY <2>2, LimitIsPositive
    <2> QED
      BY <1>1, <2>3
  <1>4. status.lines = shown /\ status.truncated = truncated
    BY DEF GitStatus, ProcessToolResult, Limit
  <1>5. found.lines = SubSeq(shown, 1, k)
        /\ found.truncated = (truncated \/ Len(shown) > max_results)
    BY DEF FileSearch, ProcessToolResult, Limit
  <1>6. Size(shown) <= Limit /\ shown = Shown(shown)
    BY <1>1, ShownAll
  <1> HIDE DEF b, truncated
  <1>7. HonestOutput(lines, status)
    <2> HIDE DEF status
    <2> QED
      BY <1>3, <1>4, <1>6 DEF HonestOutput, Limit
  <1>8. k \in 0 .. Len(shown) /\ k <= max_results /\ k \in Nat
    BY <1>2
  <1>9. Size(SubSeq(shown, 1, k)) <= Limit
        /\ SubSeq(shown, 1, k) = Shown(SubSeq(shown, 1, k))
        /\ Len(SubSeq(shown, 1, k)) = k
    <2> HIDE DEF k
    <2> QED
      BY <1>1, <1>8, ShownPart
  <1>10. ~found.truncated => found.lines = Shown(lines)
    <2> SUFFICES ASSUME ~found.truncated PROVE found.lines = Shown(lines)
      OBVIOUS
    <2>1. b = lines /\ ~(Len(shown) > max_results)
      BY <1>3, <1>5
    <2>2. k = Len(shown)
      BY <1>2, <2>1
    <2>3. SubSeq(shown, 1, Len(shown)) = shown
      BY <1>2, SubSeqFull
    <2> HIDE DEF k, found
    <2> QED
      BY <1>5, <2>1, <2>2, <2>3
  <1>11. HonestOutput(lines, found) /\ Len(found.lines) <= max_results
    <2> HIDE DEF k, found, shown
    <2> QED
      BY <1>5, <1>8, <1>9, <1>10 DEF HonestOutput, Limit
  <1> QED
    BY <1>7, <1>11 DEF ReadsHonestly

\* What OutputIsHonest says of the outputs of a run holds for any set of them.
THEOREM OutputSafety == LocalSpec => []OutputIsHonest
  <1>1. ASSUME NEW lines \in Outputs, NEW noisy \in BOOLEAN, NEW max_results \in ResultLimits
        PROVE  ReadsHonestly(lines, noisy, max_results)
    BY OutputAssumption, ReadingTools
  <1>2. OutputIsHonest
    BY <1>1 DEF OutputIsHonest
  <1> QED
    BY <1>2, PTL

================================================================================
