------------------------------ MODULE ChatContext ------------------------------
(***************************************************************************)
(* The context of a chat turn: ChatService._build_context reads the        *)
(* knowledge base through KnowledgeSearchService and the memories through  *)
(* RecentMemoryContextProvider, while import commands and memory requests  *)
(* change both.  Every await of the turn is a step.                        *)
(***************************************************************************)
EXTENDS Knowledge, MemoryItems, Chunking

CONSTANTS
    Turns,              \* chat turns
    ResultLimit,        \* rag_result_limit
    MemoryLimit,        \* RecentMemoryContextProvider._limit
    UserScope,          \* MemoryScope.USER
    UnsafeTexts,        \* chunk texts the input guard blocks
    UnsafeMemories      \* memories whose content it blocks

ASSUME ContextAssumption ==
    /\ ResultLimit \in Nat \ {0}
    /\ MemoryLimit \in Nat \ {0}
    /\ UserScope \in Scopes
    /\ UnsafeMemories \subseteq Memories

VARIABLE turn       \* the handler of each chat turn and the context it has built

vars == <<kvars, mvars, turn>>

TurnPC == {"new", "query", "search", "memory", "model", "answered", "error"}

\* A chunk that was found: its document, the import that saved it and the one
\* that computed its embedding.
Finding == [source : Sources, index : Nat, by : Imports, vector : Imports]

Turn == [pc : TurnPC,
         knowledge : SUBSET Finding,
         memory : SUBSET Memories,
         blocked : BOOLEAN,                 \* the memories were blocked
         remembered : SUBSET Memories,      \* history: created before the turn
         forgotten : SUBSET Memories]       \* history: deleted before the turn

Init ==
    /\ KnowledgeInit
    /\ MemoryInit
    /\ turn = [t \in Turns |-> [pc |-> "new", knowledge |-> {}, memory |-> {},
                                blocked |-> FALSE, remembered |-> {}, forgotten |-> {}]]

--------------------------------------------------------------------------------
(***************************************************************************)
(* A chat turn                                                             *)
(***************************************************************************)

Deleted == {m \in Memories : Stored(m) /\ memories[m].deleted}

Receive(t) ==
    /\ turn[t].pc = "new"
    /\ turn' = [turn EXCEPT ![t].pc = "query",
                            ![t].remembered = {m \in Memories : remember[m] = "created"},
                            ![t].forgotten = Deleted]
    /\ UNCHANGED <<kvars, mvars>>

\* embed_text of the message
EmbedQuery(t) ==
    /\ turn[t].pc = "query"
    /\ turn' = [turn EXCEPT ![t].pc = "search"]
    /\ UNCHANGED <<kvars, mvars>>

\* Seeded defect: chunks are found without their embeddings.
FoundUnjoined ==
    UNION {{[source |-> s, index |-> k, by |-> documents[s].by, vector |-> None] :
                k \in DOMAIN documents[s].vectors} :
             s \in {r \in Sources : documents[r] # None}}

\* The rows _search_similar_chunks joins: chunks with an embedding.
Found ==
    UNION {{[source |-> s, index |-> k, by |-> documents[s].by,
             vector |-> documents[s].vectors[k].by] :
                k \in {n \in DOMAIN documents[s].vectors : documents[s].vectors[n] # None}} :
             s \in {r \in Sources : documents[r] # None}}

TextFound(f) == TextOf(f.source, f.index)

\* ContextGuard.wrap: one blocked text drops the whole context.
Guarded(context, unsafe) == IF context \cap unsafe = {} THEN context ELSE {}

\* The nearest chunks; which ones depends on the message.
Search(t) ==
    /\ turn[t].pc = "search"
    /\ \E found \in SUBSET Found :
          /\ Cardinality(found) <= ResultLimit
          /\ turn' = [turn EXCEPT ![t].pc = "memory",
                                  ![t].knowledge =
                                     Guarded(found, {f \in found : TextFound(f) \in UnsafeTexts})]
    /\ UNCHANGED <<kvars, mvars>>

\* RecentMemoryContextProvider.get_context
ReadMemory(t) ==
    /\ turn[t].pc = "memory"
    /\ LET listed == ListActive(UserScope, MemoryLimit)
       IN  turn' = [turn EXCEPT ![t].pc = "model",
                                ![t].memory = Guarded(listed, UnsafeMemories),
                                ![t].blocked = listed \cap UnsafeMemories # {}]
    /\ UNCHANGED <<kvars, mvars>>

Answer(t) ==
    /\ turn[t].pc = "model"
    /\ turn' = [turn EXCEPT ![t].pc = "answered"]
    /\ UNCHANGED <<kvars, mvars>>

\* The embedding model, the database or the language model fails.
TurnFails(t) ==
    /\ turn[t].pc \in {"query", "search", "memory", "model"}
    /\ turn' = [turn EXCEPT ![t].pc = "error"]
    /\ UNCHANGED <<kvars, mvars>>

TurnStep(t) == \/ EmbedQuery(t) \/ Search(t) \/ ReadMemory(t) \/ Answer(t)
               \/ TurnFails(t)

Next == \/ KnowledgeNext /\ UNCHANGED <<mvars, turn>>
        \/ MemoryNext /\ UNCHANGED <<kvars, turn>>
        \/ \E t \in Turns : Receive(t) \/ TurnStep(t)

Spec == Init /\ [][Next]_vars

--------------------------------------------------------------------------------
(***************************************************************************)
(* Properties                                                              *)
(***************************************************************************)

TypeOK == KnowledgeTypeOK /\ MemoryTypeOK /\ turn \in [Turns -> Turn]

\* What the model is shown of a document was found by the embeddings of the
\* import that saved this very text (_replace_chunks and the joins of
\* _search_similar_chunks), with one exception: an import that was embedding the
\* document when this text was saved stores its embeddings by chunk index.  Then
\* the text is found by another text's embeddings, also when the import that
\* saved it failed or died before it stored any.
FoundByOwnEmbedding ==
    \A t \in Turns : \A f \in turn[t].knowledge :
        f.vector = f.by \/ <<f.vector, f.by>> \in overtaken

\* A turn received after a memory was deleted is answered without it, although
\* the turn reads its memories only after two other awaits
\* (docs/memory-design.md:185-186, 203-206).
ForgottenIsNotUsed ==
    \A t \in Turns : turn[t].memory \cap turn[t].forgotten = {}

\* The newer user memories that a turn may have listed: all but those that were
\* deleted before it began.
Newer(m, forgotten) ==
    {n \in Memories \ forgotten :
        /\ Stored(n)
        /\ memories[n].scope = UserScope
        /\ memories[n].updated_at > memories[m].updated_at}

\* A user memory created before the turn began is in its context, unless it was
\* deleted, as many newer ones as the limit displaced it, or the guard blocked
\* a memory listed with it: deleted memories, those of other scopes and
\* concurrent requests do not push it out (list_active and
\* RecentMemoryContextProvider).
RecentMemoriesAreUsed ==
    \A t \in Turns : turn[t].pc \in {"model", "answered"} =>
        \A m \in turn[t].remembered :
            \/ m \in turn[t].memory
            \/ memories[m].scope # UserScope
            \/ memories[m].deleted
            \/ Cardinality(Newer(m, turn[t].forgotten)) >= MemoryLimit
            \/ turn[t].blocked

\* Whatever a Markdown or plain file contains, its chunks are never empty, are
\* within the limit, and hold every visible character of the file in order: a
\* long paragraph next to short ones, or text before a heading, is not lost
\* (ParagraphChunker.chunk).
ChunksKeepText ==
    Init => \A text \in Documents, markdown \in BOOLEAN : KeepsText(text, markdown)
================================================================================
