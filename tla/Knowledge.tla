------------------------------- MODULE Knowledge -------------------------------
(***************************************************************************)
(* Knowledge ingestion: KnowledgeIngestionService and the import command   *)
(* over PostgresKnowledgeRepository and the Ollama embedding provider, for *)
(* one collection and one embedding model.  Every run of the command is an *)
(* import of its own.  A transaction is one step; the requests to the      *)
(* embedding model in between are steps of their own.                      *)
(***************************************************************************)
EXTENDS Integers, Sequences

CONSTANTS
    Imports,        \* runs of the import command
    Sources,        \* source_uri of the documents
    Contents,       \* contents a file has when it is loaded
    ChunkTexts,     \* texts of chunks
    ChunksOf,       \* the chunks of each content, see Chunking
    None

ASSUME KnowledgeAssumption ==
    /\ ChunksOf \in [Contents -> Seq(ChunkTexts) \ {<<>>}]
    /\ None \notin Imports /\ None \notin Sources /\ None \notin Contents

VARIABLES
    documents,  \* knowledge_documents with their chunks and embeddings
    import,     \* each run of the command
    overtaken   \* history: <<j, i>> when i saved the document that j was embedding

kvars == <<documents, import, overtaken>>

(***************************************************************************)
(* Saving a document gives its chunks new identifiers, so "by", the import *)
(* that saved it, stands for them.  vectors[k] is the embedding of chunk k *)
(* once it is stored: the text it was computed from, and the import.       *)
(***************************************************************************)
Vector == [text : ChunkTexts, by : Imports]

Document == [content : Contents, by : Imports, vectors : Seq(Vector \cup {None})]

ASSUME RowAssumption == None \notin Vector /\ None \notin Document

ImportPC == {"new", "save", "embed", "imported", "failed", "dead"}

Import == [pc : ImportPC, source : Sources \cup {None},
           content : Contents \cup {None}, embedded : Nat]

Ended == {"imported", "failed", "dead"}

\* An import that has not begun, or has ended, holds no document.
NoImport(pc) == [pc |-> pc, source |-> None, content |-> None, embedded |-> 0]

KnowledgeInit ==
    /\ documents = [s \in Sources |-> None]
    /\ import = [i \in Imports |-> NoImport("new")]
    /\ overtaken = {}

--------------------------------------------------------------------------------
(***************************************************************************)
(* One import                                                              *)
(***************************************************************************)

\* loader.load and chunker.chunk
Load(i) ==
    /\ import[i].pc = "new"
    /\ \E s \in Sources, content \in Contents :
          import' = [import EXCEPT ![i] =
                        [pc |-> "save", source |-> s, content |-> content, embedded |-> 0]]
    /\ UNCHANGED <<documents, overtaken>>

\* ux_knowledge_documents_collection_hash
HashIsFree(i) ==
    \A s \in Sources \ {import[i].source} :
        documents[s] # None => documents[s].content # import[i].content

Goto(i, pc) == import' = [import EXCEPT ![i] = IF pc \in Ended THEN NoImport(pc)
                                                ELSE [@ EXCEPT !.pc = pc]]

\* Other imports of the document that are still embedding its chunks.
Rivals(i) == {j \in Imports \ {i} : /\ import[j].pc = "embed"
                                    /\ import[j].source = import[i].source}

\* Seeded defect: chunks are updated in place and keep their embeddings.
NewVectorsKept(i) ==
    LET old == documents[import[i].source]
    IN  [k \in DOMAIN ChunksOf[import[i].content] |->
            IF old # None /\ k \in DOMAIN old.vectors THEN old.vectors[k] ELSE None]

\* The new chunks have no embeddings: those of the old ones were deleted
\* with them (ON DELETE CASCADE).
NewVectors(i) == [k \in DOMAIN ChunksOf[import[i].content] |-> None]

\* save_document: collection, document and chunks in one transaction.  The
\* answer to a commit may be lost.
SaveDocument(i) ==
    /\ import[i].pc = "save"
    /\ HashIsFree(i)
    /\ documents' = [documents EXCEPT ![import[i].source] =
                        [content |-> import[i].content, by |-> i, vectors |-> NewVectors(i)]]
    /\ overtaken' = overtaken \cup (Rivals(i) \X {i})
    /\ \E pc \in {"embed", "failed"} : Goto(i, pc)

Total(i) == Len(ChunksOf[import[i].content])

\* One request to the embedding model.
EmbedChunk(i) ==
    /\ import[i].pc = "embed"
    /\ import[i].embedded < Total(i)
    /\ import' = [import EXCEPT ![i].embedded = @ + 1]
    /\ UNCHANGED <<documents, overtaken>>

\* Seeded defect: embeddings are stored as soon as the first one is there.
EmbeddedAny(i) == import[i].embedded > 0

EmbeddedAll(i) == import[i].embedded = Total(i)

\* Seeded defect: rows are written for every embedded index.
UpsertedAll(i, document) ==
    [document EXCEPT !.vectors =
        [k \in 1 .. import[i].embedded |->
            [text |-> ChunksOf[import[i].content][k], by |-> i]]]

\* _upsert_embeddings joins on the chunk index: a chunk the document no
\* longer has is skipped, and chunks beyond the embedded ones are left alone.
Upserted(i, document) ==
    [document EXCEPT !.vectors =
        [k \in DOMAIN @ |-> IF k <= import[i].embedded
                            THEN [text |-> ChunksOf[import[i].content][k], by |-> i]
                            ELSE @[k]]]

\* save_embeddings
StoreEmbeddings(i) ==
    /\ import[i].pc = "embed"
    /\ EmbeddedAll(i)
    /\ documents' = [documents EXCEPT ![import[i].source] = Upserted(i, @)]
    /\ \E pc \in {"imported", "failed"} : Goto(i, pc)
    /\ UNCHANGED overtaken

\* A document that cannot be loaded, a content stored under another source,
\* an unusable embedding or an unreachable service: exit status 1.
ImportFails(i) ==
    /\ import[i].pc \in {"new", "save", "embed"}
    /\ Goto(i, "failed")
    /\ UNCHANGED <<documents, overtaken>>

\* The command is interrupted; an open transaction is rolled back.
ImportDies(i) ==
    /\ import[i].pc \in {"save", "embed"}
    /\ Goto(i, "dead")
    /\ UNCHANGED <<documents, overtaken>>

ImportStep(i) == \/ Load(i) \/ SaveDocument(i) \/ EmbedChunk(i) \/ StoreEmbeddings(i)
                 \/ ImportFails(i)

KnowledgeNext == \E i \in Imports : ImportStep(i) \/ ImportDies(i)

--------------------------------------------------------------------------------
(***************************************************************************)
(* Properties                                                              *)
(***************************************************************************)

\* A document has one embedding slot per chunk, and an import works on a
\* document that exists, with at most as many embeddings as it had chunks.
KnowledgeTypeOK ==
    /\ documents \in [Sources -> Document \cup {None}]
    /\ import \in [Imports -> Import]
    /\ overtaken \subseteq Imports \X Imports
    /\ \A s \in Sources : documents[s] # None =>
          DOMAIN documents[s].vectors = DOMAIN ChunksOf[documents[s].content]
    /\ \A i \in Imports :
          /\ import[i].pc \in {"save", "embed"} =>
                import[i].source # None /\ import[i].content # None
          /\ import[i].pc = "save" => import[i].embedded = 0
          /\ import[i].pc = "embed" =>
                documents[import[i].source] # None /\ import[i].embedded <= Total(i)

TextOf(s, k) == ChunksOf[documents[s].content][k]

\* A stored embedding is the embedding of the text of its chunk, whatever
\* imports failed or died before, with one exception: when the document was
\* saved anew during an import's requests to the embedding model, that import
\* attaches the embeddings of its own text to the chunks saved over it
\* (_upsert_embeddings joins on the chunk index alone).
VectorsMatch ==
    \A s \in Sources : documents[s] # None =>
        \A k \in DOMAIN documents[s].vectors :
            \/ documents[s].vectors[k] = None
            \/ documents[s].vectors[k].text = TextOf(s, k)
            \/ <<documents[s].vectors[k].by, documents[s].by>> \in overtaken

\* A document whose import was reported as done can be searched in all of its
\* chunks until another import saves it: no failure, crash or late import of
\* the same document takes the embeddings away.
ImportedIsSearchable ==
    \A s \in Sources :
        (documents[s] # None /\ import[documents[s].by].pc = "imported")
            => \A k \in DOMAIN documents[s].vectors : documents[s].vectors[k] # None
================================================================================
