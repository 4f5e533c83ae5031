# Kelvin Assistant: TLA+ models and proofs

Kelvin Assistant is a local AI assistant: a FastAPI backend that chats, searches
documents and runs a server-managed *agent*, and a Windows client that executes the
agent's tools. This directory specifies the parts of it whose correctness depends on
state shared between requests, checks them with TLC on small instances, and proves
the safety properties with TLAPS for every value of the constants.

## Inventory

| Component | State | Operations | Talks to | Hard part | Correct when |
|---|---|---|---|---|---|
| Agent domain (`domain/agent.py`) | immutable `AgentRun`, `ToolProposal` | `create`, `transition_to` | used by all below | step limit | no illegal transition, steps within limit |
| Tool policy (`application/tool_policy.py`) | constant registry | `evaluate` | agent service | claimed against registered risk | a write is never just allowed |
| Agent service (`application/agent.py`) | none | ten lifecycle operations | domain, policy | guards | each is one transition |
| Planning service (`application/agent_planning.py`) | none | `prepare_run`, `plan_next`, `apply_decision` | planner, agent service | long await on the model | a decision is applied to the run it was made for |
| LLM planner (`adapters/llm_planner.py`) | none | `plan` | Ollama | one repair, errors nobody catches | the run stays consistent whatever the model says |
| Agent API (`api/agent_routes.py`) | request handlers | create, cancel, plan, next, tools, approval, result | services, store, notifications | concurrent requests on one run, cut-off handlers | run and audit rows always agree |
| PostgreSQL run store (`adapters/postgres_agent_runs.py`) | three tables | add, get, update, cancel_run, update_proposal, complete_proposal | API | optimistic versions, upsert | lost updates are impossible, the audit is final |
| In-memory run store (`adapters/memory_agent_runs.py`) | three dictionaries, a lock | the same port | API without a database | no index, nothing closed | it stores what the database would, and runs nothing more |
| Notifications (`application/notifications.py`) | sent approvals | three run events, daily summary | SMTP, n8n | after the commit | truthful, not forgotten |
| Local client (`application/local_agent.py`, `adapters/agent_http.py`, `cli/agent.py`) | local loop | `run_tool`, `run_goal` | agent API over HTTP, executors | lost answers, interruption, second approver | executes only what is authorised, tells the truth |
| Read tools (`adapters/read_tools.py`, `local_process.py`) | child process | git status, diff, search, tests | operating system | timeout, cancellation, truncation | no child left behind, output cut only as marked |
| File patch (`adapters/write_tools.py`) | workspace file | preview, execute | client | file changes between preview and execute | applies exactly what was previewed |
| Chat (`application/chat.py`, `adapters/memory_sessions.py`) | sessions | send, stream | LLM, guards | concurrent turns, disconnects | turns are whole and none is lost |
| Knowledge (`application/knowledge.py`, `adapters/postgres_knowledge.py`) | documents, chunks, embeddings | import, search | PostgreSQL, embedding model | import in two transactions | what is found was embedded for that text |
| Memory (`adapters/postgres_memory.py`) | memory rows | create, forget, list | chat turns | deletion next to a turn | the forgotten is not used, the newest is |
| Idempotency (`api/app.py`) | response cache | POST `/runs` with a key | all agent routes | retry during the first attempt | one effect per key |
| API tokens (`file_api_tokens.py`) | token list, read at start-up | authenticate | every route | none | fail closed |
| Guards, audit log, settings, web UI, scripts | little | checks, forms | - | - | text patterns or plain I/O |

`PROJECT.json` lists every component with its status, every run, the mutants, the
map from definitions to source lines, the hazards and the theorems.

### How the parts interact

```
 web pages ----HTTP---+                        +-> AgentService -> ToolPolicy -> AgentDomain
                      v                        |
 local client -HTTP-> middleware -> agent routes -> AgentPlanningService -> LLM planner -> Ollama
   |  executors       (allowlist,   |   |
   +-> FilePatch       idempotency) |   +-> notifications -> SMTP / n8n
   +-> child processes              +-> PostgresAgentRunStore or InMemoryAgentRunStore
 browser -----HTTP-> chat routes -> ChatService -> Ollama, InMemorySessionStore
                                        +-> KnowledgeSearchService, recent memories
 import command ---> KnowledgeIngestionService -> embedding model, PostgreSQL
```

Domain, policy and service are pure: they map immutable values to new ones. State
is shared only through the run store, the session store, the knowledge and memory
tables, the idempotency cache and the workspace files. Every hazard of the list
therefore has the same shape: a coroutine reads shared state, awaits something (the
database, a model, a prompt, a child process, a system call), and acts on what it
read. The models are cut at exactly these awaits.

## The modules

| Module | Models | Extends |
|---|---|---|
| `AgentDomain` | statuses, transition table, `transition_to`, the workspace allowlist | |
| `ToolPolicy` | registry and `DefaultToolPolicy.evaluate` | `AgentDomain` |
| `AgentService` | the pure operations of `AgentService`, and `prepare_run` | `ToolPolicy` |
| `RunLifecycle` | *abstract*: each service operation applied atomically to the current run | `AgentService` |
| `AgentApi` | the handlers, the planner, the PostgreSQL store, the run notifications | `AgentService` |
| `MemoryRunStore` | the same handlers over the in-memory store | `AgentApi` |
| `LocalProcess`, `ToolOutput` | the child process of a tool; what a tool makes of its output | |
| `LocalAgent` | the local client composed with the backend and these two | `AgentApi`, `LocalProcess`, `ToolOutput` |
| `SerialChat` | *abstract*: each chat turn as a single step | |
| `ChatSessions` | chat handlers, session store, the page's session identifier | |
| `Chunking` | Markdown and plain text cut into chunks, as a pure function | |
| `Knowledge`, `MemoryItems` | import commands and knowledge tables; memory requests and rows | |
| `ChatContext` | the context of a chat turn, composed with these three | `Knowledge`, `MemoryItems`, `Chunking` |
| `ApprovedPatch` | *abstract*: an approved change of a file applied in a single step | |
| `FilePatch` | preview, approval and execution of `file.patch` next to an editor | |
| `OncePerKey` | *abstract*: each request answered in a single step, each key settled once | |
| `Idempotency` | the allowlist and response cache around POST `/runs` | |
| `MC...` | small instances for TLC | the module of that name |
| `...Proofs` | theorems about the module of that name | that module, `TLAPS` |
| `FoldProofs` | induction over numbers and sequences, and what `FoldLeft` computes | `TLAPS` and its library |

Operators named "Seeded defect" in their comment are not used by any specification;
they are the mutated forms that `PROJECT.json` lists, one for each property, and
show that the property notices the defect.

### AgentApi

`runs`, `proposals` and `results` are the three tables; `closed` is
`closed_at is not null`, and `Open(r)` the rows the partial unique index ranges
over. `req[q]` is the coroutine of one HTTP request: `pc` is the await it is
suspended in, `snap`, `next`, `call` and `proposal` its local variables. `mail`
is what was handed to the notification adapter and `issued` the tool-call UUIDs
generated so far.

* `CancelAgentRun`, `BeginAgentPlanning`, `PlanNextAgentStep`, `ProposeAgentTool`,
  `ResolveAgentToolApproval` and `SubmitAgentToolResult` are the handlers from the
  request to the first write: the reads, the service call with its exceptions, and
  the response when nothing is written.
* `PlannerRepairs`, `PlannerFails` and `PlannerRaises` are the await on the model:
  an invalid first answer is sent back once, an unreachable model or a second invalid
  answer fails the run, and the two errors that no caller catches (a blank answer that
  cannot be quoted, an observation longer than a request may be) leave the run
  as it was and the response an internal error. `PlannerDecides`,
  `PlannerProposesTool` and `DecisionFails` are `apply_decision` on a valid answer.
* `GetActiveAgentTool` reads the active proposal. It changes nothing, but it is how a
  client sees what the store holds.
* `Update`, `CancelRun`, `UpdateProposal` and `CompleteProposal` are the store's
  four transactions, `StoreRefuses` all their refusals: another version, a row of
  another call, no open proposal, a violated index. A transaction is one
  step because it locks the run row first (`_lock_and_validate_run`).
* `Notify` is the last await of a handler, `Abort` a handler that stops at any
  await: lost database connection, cancelled task, restarted backend.

An answer is a success (`ok`), a 404 (`not_found`), a 409 (`conflict`), another declared
error of the caller or the planner (`refused`) or an internal error (`error`). `Refusal` is
what the exception of a refused transaction becomes: `ConflictAnswer` a 409, except that
`_fail_planning_run` hides a conflict and a denied call is answered as denied; a violated
unique index is `AgentRunStoreUnavailableError`, which nobody catches. A proposal keeps
the name and the claimed risk of its call, so `ResultsAreAuthorised` can compare the claim
with the registry. The routes that list and show runs, texts, timestamps, token scopes and
the summary shown to the user are left out. A missing run is a 404 without effect and has
no action.

### MemoryRunStore

The handlers of `AgentApi` with the writes of `InMemoryAgentRunStore`, each one step
because it holds the lock. An entry of `proposals` is one of `_proposals_history`; it
is closed when it is not, or no longer, the entry that `_proposals` holds for its run.
`update_proposal` replaces the active proposal without looking at it and never removes
one, `complete_proposal` compares only the active one. So a proposal whose rejection
cancelled the run stays active, which `ActiveProposalFits` states as its exception,
and a backend that restarts has lost everything (the specification is one lifetime).
`ClosedWithRun` is the refinement mapping: the rows PostgreSQL would hold are the
entries, those of ended runs closed. `StoreImplementsPostgres` says that under it
every step changes what a step of `AgentApi` changes and gives its answer, with two
exceptions. Neither changes anything in either store, but a client can see both.

* `AnswersRejected`: a request about a run whose rejected proposal is still the active
  one. The active tool is answered with 200 and a repeated approval or result with 409,
  where PostgreSQL has closed the row and answers 404.
* `AnswersLateResult`: a result read before, and stored after, another request closed its
  proposal. `complete_proposal` of the dictionaries looks at the active proposal first and
  answers 404; PostgreSQL compares the version first and answers 409.

### LocalAgent

`client.pc` is the request, prompt or executor the client's coroutine is in. The
client's requests are handled by the unchanged actions of `AgentApi` in the slots
`main` and `cancel`; the slot `web` is a second user who approves, rejects or
cancels. Sending a request and the handler's first read are one step; everything
between that read and the answer interleaves. `Timeout` leaves the backend working
on a request nobody waits for, `Interrupt` is Ctrl+C, with the one window
(`create_run`) in which the code does not cancel. Three checks of the client cannot
fire against this server and are left out: `_verify_workspace` (the server stores
the workspace it was sent), an unregistered executor (client and server are built
with the same tools) and a proposal whose status does not match its decision.

A reading tool waits for the `child` of `LocalProcess`: the child ends, the timeout or
Ctrl+C kills it, and the killed child is reaped before the task goes on. `kill` on a
child whose transport asyncio has just closed raises `ProcessLookupError`: then no
result is submitted, and after Ctrl+C the run is not cancelled. Cancellation inside
`create_subprocess_exec` itself is not split further. A writing tool is one step here;
`FilePatch` is its detail, and implements `ApprovedPatch`, in which it is one step too.
`ToolOutput` is what the tools make of a successful
child's output; it has no state. A line of output has a length, and its path can be read
once `head` characters of it are there; texts are not modelled further.

`ClientRank` bounds the steps the command has left. It is a number of three digits: passes
of the loop the turn count still allows (times 84), places of the current pass
(`Stage`, times 7), and what is left of the await at that place: of the handler it waits
for (`StepsLeft`, at most 6 with the sending), of the child, or of the create request.

### ChatSessions

Each request carries a message of its own, so a stored message identifies its turn.
Plain and streamed requests both name any session or none; `page` is the identifier the
chat page keeps, which only `RetryReachesSession` is about.
`base` is the session value a handler read, `context` the history the model was
given, `told` the event or status the client saw. A streamed request may be closed
wherever it waits; a plain one runs on and loses its response. Guards are reduced to
one blocked outcome; the reads of a turn's context are in `ChatContext`.
`SerialChat` is what the endpoints promise: a turn reads its session, is answered and is
stored in a single step, and a client is told once what became of it. `TurnLog` and
`AnsweredFrom` are the refinement mapping: the turns of each session, and the
context of every message that is stored; that of a message still on its way is hidden.

### ChatContext, Knowledge, MemoryItems, Chunking

`documents[s]` is a row of `knowledge_documents` with its chunks and `vectors[k]` the
embedding of chunk k. An import is a command line process: it saves the document, its
new chunks without embeddings, in one transaction, asks the model for each embedding,
and stores them all in a second. It may fail, die, or lose the answer to a commit in
between. Embeddings are joined by chunk index, so an import attaches vectors of its own
text to whatever chunks its document has by then. `overtaken` is a history variable, the
pairs `<<j, i>>` of an import j that was embedding the document when i saved it anew.
`VectorsMatch` and `FoundByOwnEmbedding` exempt exactly such a pair: on the chunks of i, vectors of
j. So the text of i may be found by vectors of another text, and it may be found
although i failed or died before it stored any vector of its own. `memories[m]` is a row with the start time of its transaction;
rows become visible with the commit. A turn embeds its message, searches, reads the
newest memories and asks the model, one step each. Which chunks are nearest is
a nondeterministic choice. `remembered` and `forgotten` are history variables of a turn.
`Chunking` works on characters, because where text is cut is what it is about: a
character is a word, a number sign, a space or a newline.

### FilePatch

A file is a sequence of words and a patch replaces one word, so
"occurs exactly once" and "changes the file" keep their meaning. The path, size and
encoding checks all end in the same error and are one nondeterministic failure.
`Check`, `WriteTemp` and `ReplaceTarget` are the system calls of `execute`, with the
editor and the death of the process between any two. The temporary file itself is
seen by no one else and is left out.
`ApprovedPatch` is what the user is promised: a change is shown, approved and applied,
the last in a single step. The refinement mapping shows of each call the `Change` it will
make and the `Verdict` so far; a call between comparison and `os.replace` is approved and
not yet applied. `Overtaken` are the calls whose file is saved in that window: the
abstract save may come too late for an approved call, because the code's
comparison and `os.replace` are two system calls. `PreviewedFileOnly` says which saves
those are.

### Idempotency

`Receive` and `Return` are the middleware before and after `await call_next`.
`Concurrent` is a bound on the clients: whether a request is repeated while the
first is still being handled. `OncePerKey` handles, answers and remembers a request in
one step; under the mapping `settled <- store`, `answer <- Given` the cache is the
settled answer of each key and a coroutine that has not answered yet is not there.

## What the runs check

| Run | Instance | Shows |
|---|---|---|
| `safety` | 1 run of up to 2 steps, 2 tool calls, 2 concurrent requests, aborts; 287,197 states | all safety and action properties of `AgentApi`; it implements `RunLifecycle`; a run ended by the planner or a tool is reported unless its handler was cut off |
| `memory_store` | the same over the in-memory store; 287,197 states | it stores and answers what the PostgreSQL one does, but for two kinds of request that change nothing; the proposal a rejection leaves active is never executed |
| `approval_mail` | as `safety`, without aborts | *violation*: a gated tool proposed by the planner sends no approval mail |
| `approval_answer` | as `safety`, without aborts | *violation*: approving on a run without steps ends in HTTP 500 |
| `local_safety` | client, child process, web user, lost answers, Ctrl+C, aborts; 147,115 states | only authorised tools execute, no child is left, the audit holds what was executed, the user is told the stored outcome, output is cut only as marked, every step brings the command nearer to its end, every command returns |
| `cancelled_tool` | the same without Ctrl+C | *violation*: a tool starts on a run that was cancelled |
| `chat_turns` | 2 clients, 2 sessions, 3 messages, history of 1 turn; 97,308 states | it implements `SerialChat`; turns are serialised, answers truthful, requests end |
| `chat_retry` | 1 client, 1 session, 2 messages | *violation*: a "retryable" first message leaves an identifier that answers 404 |
| `knowledge` | 3 imports of 2 sources, 3 memories in 2 scopes, 1 turn; 254,167 states | but for overtaken imports, text is found by its own embeddings; what was forgotten is not shown; an imported document is searchable; chunking loses no text |
| `patch_safety` | 2 opposite patches, files of up to 2 words, 2 saves; 70,088 states | it implements `ApprovedPatch`; reports are true, only the previewed file is replaced |
| `idempotent_retry` | 2 keys, 4 requests, none overlapping; 5,444 states | it implements `OncePerKey`: a key is settled by one answer that is not a server error; one success per key |
| `idempotent_race` | the same, overlapping | *violation*: two answers for one key |

The five violations are the findings of `PROJECT.json`, each with the line of the
documentation, declaration or test it disagrees with. Where a property holds with
an exception, the property states the exception: `PreviewedFileOnly` allows the
save that falls between the comparison and `os.replace`, `VectorsMatch` and
`FoundByOwnEmbedding` the overtaken import, `ActiveProposalFits` the rejected proposal,
`StoreImplementsPostgres` two kinds of answers, and `ResultsWereExecuted` the timeout
that is reported for a child which had just ended.

`OutputIsHonest` and `ChunksKeepText` are statements about pure functions, compared with
a reference on every input of `Outputs` and `Documents`; as invariants of the form
`Init => ...` they are evaluated in the initial states only.

Deadlock is not checked: a backend with no request, a finished run and a client that
has exited are states in which the system really stops.

### Bounds

* `MaxVersion = 7` in `AgentApi`: no request starts on a run with this version. A run
  that plans, proposes, is approved, observes and plans again needs four writes a
  step, so seven reach the second step with its step limit and a terminal write.
  `LocalAgent` uses 30, which no behaviour reaches: there the loop itself is bounded.
* Two steps, so that `step_count` passes through a value that is neither zero nor the
  limit. Two calls: a closed proposal next to an open one. Two requests: every race
  of the code is between one suspended handler and one that commits.
  The proofs lift all three.
* `CallRequests` holds an allowed read, a gated write and one call for each reason of
  denial.
* `HistoryTurnLimit = 1` with three messages: the history is cut, and two requests
  can race on a session that already has a turn.
* `MaxEdits = 2`: one save before the comparison and one after it, or one that
  restores the previewed content.
* Three imports: two that race on one document while a third holds the same content
  under another source. Contents of one and two chunks: a document shrinks and grows.
  Three memories with `MemoryLimit = 2`: one falls out of the list, and one is blocked by
  the guard. `Separate` is a state constraint: imports and memory requests are not mixed
  in one behaviour. They share no variable, and a turn reads them in different
  steps; the proofs do without it.
* `MAX_TOOL_OUTPUT_LENGTH = 6` with `Outputs` of up to three lines of up to three
  characters and `ResultLimits` of 1 and 2: a cut inside the path, inside
  the rest of a line, exactly at a line's end, and beyond it.
  `MaxCharacters = 3` with `Documents` of up to 7 characters: a paragraph longer than two
  chunks, and short ones that fit together.
* Symmetry is over run, call, request, import, source, memory and key identifiers, which
  no expression distinguishes, and only in runs without liveness properties.

### Fairness

`LocalSpec` assumes weak fairness of the client's own steps, of handling the create
request, and of each backend handler. The code justifies it: asyncio resumes every
runnable coroutine, a store transaction commits or raises, the Ollama adapter has a
timeout so the planner call ends, and a user at a prompt answers (an open prompt
is otherwise the one place where the client legitimately waits for ever). The timer of
`asyncio.wait_for` around a child is a step of the client; that a child ends by
itself is *not* assumed. Nothing is assumed about Ctrl+C, lost answers or the web
user: termination does not depend on them, and they may race with it.
`ChatSessions!FairSpec` assumes weak fairness of each client's handler; a stream is not
assumed to disconnect. That the model ends its answer is an assumption here and not the
code's doing: the timeout of the Ollama adapter bounds each read, so it ends an answer that
stops arriving but not one that goes on for ever. `RequestsEnd` says that nothing else
keeps a request from ending.
The other specifications have no fairness and only safety properties.

## What is proved

Every state invariant, action property and refinement of the passing runs is proved for all
values of the constants: any number of runs, tool calls, concurrent requests, clients,
imports and memories, any step limit, registry and set of workspaces, texts and outputs of
any length, with or without aborts. The assumptions are
those on the constants, named in the modules that declare them: parameters are numbers or
subsets of the right sets, call requests are well-typed, and the null value is none of
the others. Three theorems assume more of the environment: `RetrySafety` and
`KeysSettleOnce` that a request is repeated only after its answer, `QuietEditorSafety` that
nobody saves a file in the instant it is replaced; see below.

`Invariance`, `ClientUsesBackend`, `HandlersEnd`, `DoneSafety`, `GrowthSafety`,
`ErrorSafety`, `QuietEditorSafety`, `ReadingTools` and `ChunkerKeepsText` state no property
of a run: the first two are what other theorems rest on, and the others say, of every instance,
what the runs check within a refinement or another property.

| Module | Theorems | Invariant |
|---|---|---|
| `AgentApiProofs` | `TypeCorrect`, `OpenProposalSafety`, `AuthorisationSafety`, `HandlerCurrency`, `MailSafety`, `TerminalSafety`, `AuditSafety`, `ReportingSafety`, `Refinement`, `StepSafety`, `HandlersEnd` | `IndInv`, `AuditInv` |
| `MemoryRunStoreProofs` | `StoreRefinement`, `ActiveProposalSafety`, `MemoryAuthorisation`, `MemoryAudit` | `MemInv` |
| `LocalAgentProofs` | `ClientUsesBackend`, `LocalTypeCorrect`, `ExecutionSafety`, `ChildSafety`, `LocalRefinement`, `AuditIsTrue`, `ToldOutcome`, `ProgressSafety`; `ReadingTools`, `OutputSafety` | `LocalInv`, `TrueInv` |
| `ChatSessionsProofs` | `ChatTypeCorrect`, `HistorySafety`, `DoneSafety`, `FailureSafety`, `GrowthSafety`, `ChatIsSerial` | `ChatInv` |
| `ChatContextProofs` | `ContextTypeCorrect`, `VectorSafety`, `ImportSafety`, `SearchSafety`, `ForgettingSafety`, `RecencySafety`; `ChunkerKeepsText`, `ChunkingSafety` | `ContextInv` |
| `FilePatchProofs` | `PatchTypeCorrect`, `ReportSafety`, `PreviewSafety`, `PatchIsAtomic`, `QuietEditorSafety` | `PatchInv` |
| `IdempotencyProofs` | `ErrorSafety`, `RetrySafety`, `KeysSettleOnce` | `CacheInv`, `RetryInv` |

### The backend

`OpenProposalFollowsStatus` is not inductive: a commit writes what
a handler computed earlier, so the proof must know what suspended handlers hold.
`IndInv` adds three things.

* `PendingWritesAreCurrent`: a suspended handler is about to write one service
  operation on a run that was once stored, and *if the stored version still equals
  the one it read*, the stored run and the open proposal are what it read. This is
  the content of optimistic locking: every commit increments the version, so a match
  rules out any commit in between. It is checked by TLC in its own right.
* `CallsAreUnique`: two handlers never carry the same new call, so an upsert never
  edits another handler's row.
* `NotificationsFollowCommit`: a handler that is about to notify has committed what
  it reports, which with `TerminalIsFinal` keeps mails true for ever.

The proof of `NextIndInv` has one lemma for each group of actions: handlers that
only read (`CancelOrBegin`, `NextReads`, `ToolsReads`, `ApprovalReads`, `ResultReads`),
the planner (`PlannerReturns`), the end of a handler (`HandlerEnds`), and the commits
(`UpdateCommits`, `CancelCommits`, `ProposalCommits`, `ResultCommits`), the latter resting
on `CommitOthers`: a commit keeps every *other* handler's part of the invariant because
it makes that handler's version stale.

`StepSafety` counts: `AuditInv` says that a run's step counter is the cardinality of its
let-through calls. Each transaction either adds one call to that set and one to the
counter or changes neither, which the lemmas before it derive with `FiniteSetTheorems`.

`HandlersEnd` is the measure `StepsLeft`: a received request is answered after at most
five steps of its handler (`HandlerDescends`), and `HandlerMovesOne` says that no other
request takes them. `plan_next` is the one handler that waits again after a commit;
`CommitsLeavePlanning` shows that only the plain update can lead there.

*Refinement of `RunLifecycle`.* The mapping sends `runs` to itself and `active[r]` to
the set of proposals in `Open(r)`. Reads, planner answers, notifications, aborts and
conflicts are stuttering steps; each commit is the abstract operation of its handler,
which is enabled on the *current* run because of `PendingWritesAreCurrent`.

*Refinement by the in-memory store.* `MemoryRunStoreProofs` instantiates the proofs of
the backend with the mapped rows, so `MemInv` is `IndInv` of the rows PostgreSQL would
hold, with `RejectedStaysActive` for the difference and the types of the real
ones. `WriteIsCurrent` turns the version check into facts about the current run, and
`ProposalIsCurrent` shows why no index is needed: an upsert either brings a new
call to a run without an active one or decides the only active one. The lemmas
`SameReceive`, `SameUpdate`, `SameCancel`, `SameProposal`, `SameResult` and `SameConflict`
then match each action with its counterpart, the first and the last up to the two exceptions;
`OtherAnswers` shows that a step of `AnswersOtherwise` keeps `MemInv`.

### The client

`ClientUsesBackend` shows that `LocalSpec` implements `Spec`, so every theorem about the
backend holds of the composition and `IndInv` may be used in it. `LocalInv` adds what the
client may rely on: its request is the one in the slot `main` (`MainIsAwaited`), the
body of an answer does not outlive it (`RepliesAreFresh`) and an answer that sends it to
an executor was given after the authorisation was committed (`ReplyIsAuthorised`);
`ChildIsWatched` and `RunsAreExecutable` are about the tool. `ReportInv` follows a result
from the executor into the request and the table (`ResultsAreSubmitted`, and
`NotYetReported` before it is sent). `TruthInv` says that a success the backend answers is
stored, and stays so because terminal runs are final.

`ProgressSafety` is the argument for termination without its fairness: no step of the
client, its child or the request it awaits, whether a timeout, a refusal or Ctrl+C, leaves
`ClientRank` where it was. `RankDigits` compares two ranks digit by digit
(each digit stays below its base, `RankTyped`), `RankFalls` what one move needs, and then
one lemma for each kind of step: `PromptFalls`, `GetFalls`, `ToolFalls`, `SendFalls`, and
`BackendFalls` for the awaited handler, which is `HandlersEnd` again.

### Chat, files and the cache

* `ChatInv`: the base of an active handler is a prefix of the stored session
  (`BaseIsPrefix`), which with the version comparison is all of it at the commit;
  messages of active handlers are stored nowhere and by no one else.
  *Refinement of `SerialChat`*: `StoreTurn` is the whole turn (`StoringTakesTurn`), because
  a version that still matches means that what the handler read, and sent to the model, is
  what is stored now; every end of a handler is an answer and all other steps stutter.
* `ContextInv`: an import that embeds works on the document as it saved it, or forms an
  overtaken pair with the import that saved it since (`EmbedsCurrent`), and what a turn recorded when it began still holds
  (`HistoryHolds`). `RecentMemoriesAreUsed` needs the order of the list, by
  cardinality of the newer rows.
* `PatchInv`: one call is in progress, and a call past its comparison has seen
  the previewed content (`CheckedIsPreviewed`).
  *Refinement of `ApprovedPatch`* (`PatchIsAtomic`): `Check` and `WriteTemp` stutter,
  `ReplaceTarget` is the application. It writes what the user saw on the file the user
  saw, or the call is overtaken. `QuietEditorSafety` removes the exception: if no save falls
  into the window, the file that is replaced is the previewed one.
* `RetryInv`: only cacheable answers are stored, and without overlapping requests a key
  has at most one handler running. `RetrySafety` assumes `~Concurrent`: clients repeat
  a request only after its answer.
  *Refinement of `OncePerKey`* (`KeysSettleOnce`), under the same assumption: `Return`
  settles a key, leaves it open after a server error, or handles a request without a key;
  a `Receive` that finds its key in the cache is the repetition. The key of a running
  handler is unsettled because nobody else works on it. The run `idempotent_race` is what
  happens otherwise.

### Texts and outputs

What a chunker or a filter computes for *every* input needs induction over the input.
The induction theorems of the library take an operator, which the provers cannot
instantiate; `NatInd`, `SeqInd` and `SeqInd2` of `FoldProofs` state the same with a set,
and follow from `WFMin`. The model has no recursive operator: its loops are
`FoldLeft`s. The community module defines that fold by a function chosen on the sets of
positions, so its equation has to be earned: `FoldTable` constructs such a function for every
sequence, `FoldAsFunction` the function that one more element extends by one step, and
`FoldValue` shows by induction over the prefixes that any chosen table agrees with it.
Each fold of the model then has a lemma with its value on the empty sequence, its type
and what one more element does (`VisibleFold`, `LinesFold`, `GroupsFold`, `StripAllFold`,
`SectionedFold`, `SplitFold`, `ShownFold`, `ExtentFold`), and nothing else about it is used.

* `ChunkerKeepsText` follows the text through the functions of `knowledge.py`. `Shows`
  is the visible text of a list of texts; lines, headings, paragraphs, the pieces of a long
  paragraph and the joined chunks all show what they were made of (`LinesShow`,
  `SectionedFold`, `GroupsShow`, `LongTextShows`, `FlushKeeps`, `AddParagraphKeeps`). The set `Chunk`
  of texts that are not empty, stripped and within the limit is kept by each step of
  the loop (`SplitState`), which is where the limit of two joined paragraphs is needed.
* `ReadingTools` rests on `KeptLines`: the lines that start before the limit are the first m
  of them, since offsets grow; all but the last are whole (`BoundedLines`). What is
  filtered is no longer than before (`ShownLines`), and a prefix of it neither (`PrefixExtent`).

`ChunkingSafety` and `OutputSafety` apply them to the inputs that `ChunkingAssumption` and
`OutputAssumption` allow: texts that are not blank, and outputs whose lines are not empty.

### Only model-checked

Liveness (`ClientTerminates`, `RequestsEnd`): fairness and `ENABLED` are beyond the installed
prover. Of `ClientTerminates` the half that can be stated as an action property is
proved (`ProgressSafety`): the client's rank is a natural number that every one of its steps
lowers. What only TLC checks is that a fair step stays possible until the client has
exited.

## Known behaviours that no property forbids

They are what the code does, and the models contain them; no property speaks against them.

* A child that ends at the moment of its timeout or of Ctrl+C: `kill` raises
  `ProcessLookupError`, nothing is submitted, and the run stays in `executing`.
* An import overtaken by another import of the same document attaches vectors of its old
  text to the new chunks, which makes them searchable even if the other import dies.
* A re-import that fails between its two transactions leaves its document without
  embeddings, and so out of every search until it is imported again.
* The in-memory store keeps a rejected proposal as the active one of its cancelled run and
  answers requests about it otherwise than PostgreSQL.
* A handler cut off between its commit and its mail: nothing sends the mail later.
* A client that loses its connection while a tool waits for approval ends without a cancel,
  and the web page can still approve the proposal. docs/agent-architecture.md:323-324 says
  that the approval then loses its validity; nothing in the code makes it so.
* Ctrl+C while the run is being created, or a cancel that loses against a handler,
  leaves an open run that only the web page can end.
* A blank model answer or a too long observation is an internal error that leaves the run
  in `planning`.

## Not modelled

* *Guards and firewall*: regular expressions over text; a model would repeat the
  patterns. Where their verdict matters (`ChatSessions`, `ChatContext`) it is a choice or
  a constant.
* *Audit log*: one insert per decision whose failure is swallowed.
* *Settings*: a form that changes the settings object in memory and rewrites the env file
  without an await in between. The write is not atomic, but the file is read again at the
  next start only; which values take effect before that is configuration, not a protocol.
* *API tokens*: read at start-up, never written; `require_scope` is a pure check.
* *n8n, health and frontend routes, Ollama and database adapters*: I/O without a protocol
  of their own; their failures are outcomes of the actions that await them.
* *Deployment scripts*: shell orchestration outside the program.
* *Read-only routes*, but for the active tool: they change nothing. Whether the two run
  stores list the same history is therefore not compared. That `get_agent_run` reads run and steps in
  two transactions is visible to its reader only.

Partly modelled: *notifications* (the three run events are in `AgentApi`; the daily summary
and the delivery with its per-process deduplication are not), the *web user interface*
(the buttons that decide and cancel are the second user of `LocalAgent`, the chat page's
identifier is in `ChatSessions`) and the *middleware* (the correlation identifier is not).

## Plan

1. `Notifications`: deduplication across restarts and the daily summary, with the promise
   that a pending approval is mailed at least once while the process lives.
2. The detail of `FilePatch` composed into `LocalAgent`, in place of the one step of a
   writing tool, with `ReportIsTrue` carried into `ResultsWereExecuted`.
3. Several runs per client in one workspace: two commands that patch the same file.
