----------------------------- MODULE MemoryRunStore -----------------------------
(***************************************************************************)
(* The agent endpoints over InMemoryAgentRunStore, which create_app uses   *)
(* when no database is configured, in one lifetime of the backend.  The    *)
(* handlers are those of AgentApi.  The proposals are the entries of       *)
(* _proposals_history, and an entry is closed when it is not, or no        *)
(* longer, the one that _proposals holds for its run.                      *)
(***************************************************************************)
EXTENDS AgentApi

\* update: the versions are compared as in PostgreSQL.
StoreUpdate(q) == Update(q)

\* Seeded defect: the active proposal of a cancelled run is kept.
StoreCancelKeeping(q) ==
    /\ req[q].pc = "cancel_run" /\ VersionMatches(q)
    /\ StoreRun(q)
    /\ Continue(q)
    /\ UNCHANGED <<proposals, results, issued, mail>>

\* cancel_run: _proposals.pop
StoreCancelRun(q) ==
    /\ req[q].pc = "cancel_run" /\ VersionMatches(q)
    /\ StoreRun(q)
    /\ proposals' = WithoutOpen(req[q].run)
    /\ Continue(q)
    /\ UNCHANGED <<results, issued, mail>>

\* Seeded defect: the active proposal is replaced without its approval.
HistoryUndecided(q) ==
    [proposals EXCEPT ![req[q].call] =
        [run |-> req[q].run, closed |-> FALSE,
         proposal |-> IF proposals[req[q].call] = None THEN req[q].proposal
                      ELSE proposals[req[q].call].proposal]]

\* _proposals[run.id] = proposal, whatever the run's status and whatever
\* proposal was there, and the entry of the history with the same call.
HistoryUpdated(q) ==
    [c \in CallIds |->
        IF c = req[q].call
        THEN [run |-> req[q].run, closed |-> FALSE, proposal |-> req[q].proposal]
        ELSE IF c \in Open(req[q].run) THEN [proposals[c] EXCEPT !.closed = TRUE]
        ELSE proposals[c]]

\* update_proposal: there is no unique index and no closing.
StoreUpdateProposal(q) ==
    /\ req[q].pc = "update_proposal" /\ VersionMatches(q)
    /\ StoreRun(q)
    /\ proposals' = HistoryUpdated(q)
    /\ Continue(q)
    /\ UNCHANGED <<results, issued, mail>>

\* complete_proposal: only the active proposal is compared, not the results.
StoreCompleteProposal(q) ==
    /\ req[q].pc = "complete_proposal" /\ VersionMatches(q)
    /\ req[q].call \in Open(req[q].run)
    /\ StoreRun(q)
    /\ results' = [results EXCEPT ![req[q].call] =
                      IF req[q].next.status = "observing"
                      THEN "succeeded" ELSE "failed"]
    /\ proposals' = [proposals EXCEPT ![req[q].call].closed = TRUE]
    /\ Continue(q)
    /\ UNCHANGED <<issued, mail>>

\* Where complete_proposal and the other methods look first: at the active
\* proposal, or at the version.
StoreRefusal(q) ==
    IF req[q].pc # "complete_proposal" THEN ConflictAnswer(q)
    ELSE IF Open(req[q].run) = {} THEN "not_found" ELSE "conflict"

\* AgentRunConflictError and AgentProposalNotFoundError.
StoreConflict(q) ==
    /\ \/ req[q].pc \in Writing /\ ~VersionMatches(q)
       \/ req[q].pc = "complete_proposal" /\ req[q].call \notin Open(req[q].run)
    /\ Conflict(q, StoreRefusal(q))

MemoryHandlerStep(q) ==
    \/ PlannerFails(q) \/ PlannerRepairs(q) \/ PlannerRaises(q) \/ DecisionFails(q)
    \/ PlannerDecides(q, "clarifying") \/ PlannerDecides(q, "completed")
    \/ PlannerProposesTool(q)
    \/ StoreUpdate(q) \/ StoreCancelRun(q) \/ StoreUpdateProposal(q)
    \/ StoreCompleteProposal(q) \/ StoreConflict(q) \/ Notify(q)

MemoryNext ==
    \/ \E r \in RunIds : CreateAgentRun(r)
    \/ \E q \in Requests : \/ Receive(q) \/ MemoryHandlerStep(q)
                           \/ Abort(q) \/ Respond(q)

MemorySpec == Init /\ [][MemoryNext]_vars

--------------------------------------------------------------------------------
(***************************************************************************)
(* Properties                                                              *)
(***************************************************************************)

\* The store without a unique index still has at most one active proposal per
\* run, and it fits the run's status, with one exception: the proposal whose
\* rejection cancelled the run stays active, decided (update_proposal never
\* removes an entry of _proposals, where PostgreSQL closes the row).
ActiveProposalFits ==
    \A r \in RunIds :
        \/ OpenFitsStatus(r)
        \/ /\ runs[r] # None /\ runs[r].status = "cancelled"
           /\ \E c \in CallIds : /\ Open(r) = {c}
                                 /\ proposals[c].proposal.approval = "rejected"

Ended(r) == runs[r] # None /\ runs[r].status \in Terminal

\* The rows that PostgreSQL would hold: those of an ended run are closed.
ClosedWithRun ==
    [c \in CallIds |->
        IF proposals[c] # None /\ Ended(proposals[c].run)
        THEN [proposals[c] EXCEPT !.closed = TRUE] ELSE proposals[c]]

Postgres == INSTANCE AgentApi WITH proposals <- ClosedWithRun

\* A request about a run whose rejected proposal is still the active one:
\* PostgreSQL answers each of these with 404.
AnswersRejected(q) ==
    /\ \E r \in RunIds :
          /\ Receives(q, r) /\ Ended(r) /\ Open(r) # {}
          /\ \/ Await(q, Answer("active", r, "ok"))
             \/ Await(q, Answer("approval", r, "conflict"))
             \/ Await(q, Answer("result", r, "conflict"))
    /\ UNCHANGED <<tables, issued, mail>>

\* A result that comes after its run has moved on and its proposal was closed:
\* PostgreSQL, which compares the version first, answers 409.
AnswersLateResult(q) ==
    /\ req[q].pc = "complete_proposal" /\ ~VersionMatches(q)
    /\ Open(req[q].run) = {}
    /\ Conflict(q, "not_found")

AnswersOtherwise == \E q \in Requests : AnswersRejected(q) \/ AnswersLateResult(q)

\* The two stores hold the same rows, with the proposals of ended runs taken as
\* closed: every step over the dictionaries changes what the step over the
\* tables of PostgreSQL changes and gives the same answer, except that two kinds
\* of request, which change nothing in either store, are answered otherwise.
StoreImplementsPostgres ==
    /\ Postgres!Init
    /\ [][Postgres!Next \/ AnswersOtherwise]_(Postgres!vars)

================================================================================
