------------------------------ MODULE ChatSessions ------------------------------
(***************************************************************************)
(* The chat endpoints: ChatService over the in-memory SessionStore, with   *)
(* plain (create_chat_turn) and streamed (stream_chat_turn) turns, and the *)
(* chat page of web/app.js, which keeps one session identifier.  Handlers  *)
(* are split at their awaits.  Each request sends a message of its own, so *)
(* a message stands for its turn.                                          *)
(***************************************************************************)
EXTENDS Integers, Sequences

CONSTANTS
    Clients,            \* browsers and API clients, one request each at a time
    SessionIds,         \* UUIDs
    Messages,           \* one per request
    HistoryTurnLimit,   \* history_turn_limit
    None

ASSUME ChatAssumption ==
    /\ HistoryTurnLimit \in Nat \ {0}
    /\ None \notin SessionIds \cup Messages

VARIABLES
    sessions,   \* InMemorySessionStore._sessions
    issued,     \* identifiers ChatSession.create has returned
    page,       \* the sessionId of each client's chat page
    chat,       \* the handler of each client's request
    context,    \* the history each message was sent to the model with
    told        \* what the client was told about each message

vars == <<sessions, issued, page, chat, context, told>>

Session == [turns : Seq(Messages), version : Nat]

ASSUME SessionAssumption == None \notin Session

NewSession == [turns |-> <<>>, version |-> 0]

\* Seeded defect: the version is not advanced.
AppendTurnUnversioned(session, m) == [session EXCEPT !.turns = Append(@, m)]

\* append_turn
AppendTurn(session, m) ==
    [turns |-> Append(session.turns, m), version |-> session.version + 1]

\* session.messages[-self._history_message_limit :], two messages a turn
History(turns) ==
    SubSeq(turns, IF Len(turns) > HistoryTurnLimit
                  THEN Len(turns) - HistoryTurnLimit + 1 ELSE 1, Len(turns))

ChatPC == {"idle", "announce", "model", "store", "finish"}

Handler ==
    [pc : ChatPC, stream : BOOLEAN, msg : Messages \cup {None},
     session : SessionIds \cup {None}, is_new : BOOLEAN,
     base : Session \cup {None},            \* the session that was read
     text : {"empty", "text"}]              \* the assistant's chunks so far

Idle == [pc |-> "idle", stream |-> FALSE, msg |-> None, session |-> None,
         is_new |-> FALSE, base |-> None, text |-> "empty"]

\* Errors that leave the stream with an error event, or their HTTP statuses.
Retryable == {"conflict", "unavailable"}
Refused == {"blocked", "not_found", "invalid"} \cup Retryable

Init == /\ sessions = [s \in SessionIds |-> None]
        /\ issued = {}
        /\ page = [c \in Clients |-> None]
        /\ chat = [c \in Clients |-> Idle]
        /\ context = [m \in Messages |-> <<>>]
        /\ told = [m \in Messages |-> "nothing"]

--------------------------------------------------------------------------------
(***************************************************************************)
(* Receiving a message                                                     *)
(***************************************************************************)

Unused == {m \in Messages : told[m] = "nothing" /\ \A c \in Clients : chat[c].msg # m}

Tell(m, what) == told' = [told EXCEPT ![m] = what]

\* The handler has read or created its session and asks the model.
Begins(c, m, stream, s, base, is_new) ==
    /\ chat' = [chat EXCEPT ![c] =
                   [pc |-> IF stream THEN "announce" ELSE "model",
                    stream |-> stream, msg |-> m, session |-> s,
                    is_new |-> is_new, base |-> base, text |-> "empty"]]
    /\ context' = [context EXCEPT ![m] = History(base.turns)]
    /\ UNCHANGED <<sessions, page, told>>

\* The input guard blocks the message.
Blocked(c) ==
    /\ chat[c].pc = "idle"
    /\ \E m \in Unused : Tell(m, "blocked")
    /\ UNCHANGED <<sessions, issued, page, chat, context>>

\* A request that names no session.
StartSession(c) ==
    /\ chat[c].pc = "idle"
    /\ \E m \in Unused, stream \in BOOLEAN, s \in SessionIds \ issued :
          /\ issued' = issued \cup {s}
          /\ Begins(c, m, stream, s, NewSession, TRUE)

\* A request that names one: the page the session it keeps, an API client any,
\* on both routes.
ContinueSession(c) ==
    /\ chat[c].pc = "idle"
    /\ \E m \in Unused, stream \in BOOLEAN, s \in SessionIds :
          \/ sessions[s] # None /\ Begins(c, m, stream, s, sessions[s], FALSE)
          \/ /\ sessions[s] = None /\ Tell(m, "not_found")
             /\ UNCHANGED <<sessions, page, chat, context>>
    /\ UNCHANGED issued

\* The "session" event: the page keeps the identifier.
Announce(c) ==
    /\ chat[c].pc = "announce"
    /\ page' = [page EXCEPT ![c] = chat[c].session]
    /\ chat' = [chat EXCEPT ![c].pc = "model"]
    /\ UNCHANGED <<sessions, issued, context, told>>

--------------------------------------------------------------------------------
(***************************************************************************)
(* The model's answer                                                      *)
(***************************************************************************)

\* Seeded defect: every chunk is stored as it arrives.
StreamChunkStored(c) ==
    /\ chat[c].pc = "model" /\ chat[c].stream
    /\ chat' = [chat EXCEPT ![c].text = "text"]
    /\ sessions' = [sessions EXCEPT ![chat[c].session] =
                       AppendTurn(chat[c].base, chat[c].msg)]
    /\ UNCHANGED <<issued, page, context, told>>

\* A token event of a stream.
StreamChunk(c) ==
    /\ chat[c].pc = "model" /\ chat[c].stream
    /\ chat' = [chat EXCEPT ![c].text = "text"]
    /\ UNCHANGED <<sessions, issued, page, context, told>>

\* The model is done; a plain answer arrives at once and may be blank.
ModelAnswers(c) ==
    /\ chat[c].pc = "model"
    /\ \E text \in {"empty", "text"} :
          /\ chat[c].stream => text = chat[c].text
          /\ chat' = [chat EXCEPT ![c].pc = "store", ![c].text = text]
    /\ UNCHANGED <<sessions, issued, page, context, told>>

Ends(c, what) == /\ Tell(chat[c].msg, what)
                 /\ chat' = [chat EXCEPT ![c] = Idle]

\* LLMUnavailableError and LLMResponseError, in a stream after any chunk.
ModelFails(c) ==
    /\ chat[c].pc = "model"
    /\ \E what \in {"unavailable", "invalid"} : Ends(c, what)
    /\ UNCHANGED <<sessions, issued, page, context>>

--------------------------------------------------------------------------------
(***************************************************************************)
(* Storing the turn                                                        *)
(***************************************************************************)

\* Seeded defect: update replaces whatever is stored.
VersionUnchecked(c) == TRUE

\* add and update of InMemorySessionStore, each under the store's lock.
VersionMatches(c) ==
    LET stored == sessions[chat[c].session]
    IN  IF chat[c].is_new THEN stored = None
        ELSE stored # None /\ stored.version = chat[c].base.version

\* Seeded defect: a conflicting turn is appended to the newer session.
StoreTurnRebased(c) ==
    /\ chat[c].pc = "store" /\ chat[c].text = "text"
    /\ sessions' = [sessions EXCEPT ![chat[c].session] =
                       AppendTurn(IF @ = None THEN chat[c].base ELSE @, chat[c].msg)]
    /\ chat' = [chat EXCEPT ![c].pc = "finish"]
    /\ UNCHANGED <<issued, page, context, told>>

\* append_turn refuses a blank answer.
StoreTurn(c) ==
    /\ chat[c].pc = "store" /\ chat[c].text = "text" /\ VersionMatches(c)
    /\ sessions' = [sessions EXCEPT ![chat[c].session] =
                       AppendTurn(chat[c].base, chat[c].msg)]
    /\ chat' = [chat EXCEPT ![c].pc = "finish"]
    /\ UNCHANGED <<issued, page, context, told>>

\* Seeded defect: an error after the stream is not turned into an event.
RefusedForgotten(c) == FALSE /\ UNCHANGED vars

StoreRefuses(c) ==
    /\ chat[c].pc = "store"
    /\ chat[c].text = "empty" \/ ~VersionMatches(c)
    /\ Ends(c, IF chat[c].text = "empty" THEN "invalid" ELSE "conflict")
    /\ UNCHANGED <<sessions, issued, page, context>>

\* The audit entry and the response or the done event.
Finish(c) ==
    /\ chat[c].pc = "finish" /\ Ends(c, "done")
    /\ UNCHANGED <<sessions, issued, page, context>>

\* The connection is gone: a stream is closed wherever it waits, a plain
\* handler runs on and its response is lost.
Disconnect(c) ==
    /\ chat[c].pc \in (IF chat[c].stream THEN ChatPC \ {"idle"} ELSE {"finish"})
    /\ Ends(c, "lost")
    /\ UNCHANGED <<sessions, issued, page, context>>

\* The "new chat" button, disabled while a request is in progress.
NewChat(c) ==
    /\ chat[c].pc = "idle" /\ page[c] # None
    /\ page' = [page EXCEPT ![c] = None]
    /\ UNCHANGED <<sessions, issued, chat, context, told>>

--------------------------------------------------------------------------------

HandlerStep(c) ==
    \/ Announce(c) \/ StreamChunk(c) \/ ModelAnswers(c) \/ ModelFails(c)
    \/ StoreTurn(c) \/ StoreRefuses(c) \/ Finish(c)

Next == \E c \in Clients :
    \/ Blocked(c) \/ StartSession(c) \/ ContinueSession(c) \/ HandlerStep(c)
    \/ Disconnect(c) \/ NewChat(c)

Spec == Init /\ [][Next]_vars

\* The event loop resumes every handler.  That the model ends its answer is
\* assumed: the Ollama adapter's timeout bounds each read, so it ends an answer
\* that stops arriving but not one that goes on forever.
FairSpec ==
    /\ Spec
    /\ \A c \in Clients : WF_vars(HandlerStep(c))

--------------------------------------------------------------------------------
(***************************************************************************)
(* Properties                                                              *)
(***************************************************************************)

\* The variables hold values of their types, and a session's version counts
\* its turns.
TypeOK ==
    /\ sessions \in [SessionIds -> Session \cup {None}]
    /\ \A s \in SessionIds : sessions[s] # None
                               => sessions[s].version = Len(sessions[s].turns)
    /\ issued \subseteq SessionIds
    /\ page \in [Clients -> SessionIds \cup {None}]
    /\ chat \in [Clients -> Handler]
    /\ context \in [Messages -> Seq(Messages)]
    /\ told \in [Messages -> {"nothing", "done", "lost"} \cup Refused]

\* Turns of a session are serialised: the model answered every stored turn
\* with exactly the turns stored before it, cut to the history limit, however
\* plain and streamed requests on the session interleave.
TurnsSawTheirHistory ==
    \A s \in SessionIds : sessions[s] # None =>
       \A i \in 1 .. Len(sessions[s].turns) :
          context[sessions[s].turns[i]] = History(SubSeq(sessions[s].turns, 1, i - 1))

\* Turn i of session s is message m.
StoredAt(m, s, i) == /\ sessions[s] # None
                     /\ i \in 1 .. Len(sessions[s].turns)
                     /\ sessions[s].turns[i] = m

Stored(m) == \E s \in SessionIds : sessions[s] # None
                 /\ \E i \in 1 .. Len(sessions[s].turns) : StoredAt(m, s, i)

\* A client told that its turn is done has it in the store.
DoneIsStored == \A m \in Messages : told[m] = "done" => Stored(m)

\* docs/installation.md: a failed model call, a conflict or a refused request
\* leaves no turn, so sending the message again does not duplicate it.
FailureLeavesNoTurn == \A m \in Messages : told[m] \in Refused => ~Stored(m)

\* Stored turns are never lost or reordered.
HistoryOnlyGrows ==
    [][\A s \in SessionIds : sessions[s] # None =>
          /\ sessions'[s] # None
          /\ SubSeq(sessions'[s].turns, 1, Len(sessions[s].turns)) = sessions[s].turns]_vars

\* Every request that reached the model ends: its client is told something or
\* is gone.
RequestsEnd == \A c \in Clients : chat[c].pc # "idle" ~> chat[c].pc = "idle"

\* chat_routes.py marks unavailable models and conflicts as retryable: the
\* page that is told so keeps a session its next message will find.
RetryReachesSession ==
    [][\A c \in Clients :
          chat[c].stream /\ told[chat[c].msg] # told'[chat[c].msg]
          /\ told'[chat[c].msg] \in Retryable
          => sessions'[page'[c]] # None]_vars

--------------------------------------------------------------------------------
(***************************************************************************)
(* The promise                                                             *)
(***************************************************************************)

\* The sessions as the abstract specification sees them.
TurnLog == [s \in SessionIds |-> IF sessions[s] = None THEN <<>> ELSE sessions[s].turns]

AnsweredFrom == [m \in Messages |-> IF Stored(m) THEN context[m] ELSE <<>>]

Serial == INSTANCE SerialChat WITH log <- TurnLog, seen <- AnsweredFrom

\* Handlers that read a session, await the model and compare the version when
\* they store their turn behave as if each turn were a single step, taken when
\* it is stored (ChatService over InMemorySessionStore).
ImplementsSerialChat == Serial!Spec

================================================================================
