--------------------------- MODULE ChatContextProofs ---------------------------
(***************************************************************************)
(* Proofs about ChatContext for every number of imports, documents, chunks,*)
(* memories and turns.                                                     *)
(***************************************************************************)
EXTENDS ChatContext, FoldProofs, FiniteSetTheorems

--------------------------------------------------------------------------------
(***************************************************************************)
(* Type correctness of the knowledge tables                                *)
(***************************************************************************)

\* An import that saves or embeds has the chunks of a content.
LEMMA ImportTypes ==
    ASSUME KnowledgeTypeOK, NEW i \in Imports, import[i].pc \in {"save", "embed"}
    PROVE  /\ import[i] \in Import
           /\ import[i].source \in Sources
           /\ import[i].content \in Contents
           /\ ChunksOf[import[i].content] \in Seq(ChunkTexts)
           /\ Total(i) \in Nat
           /\ import[i].pc = "embed" => documents[import[i].source] \in Document
  <1>1. /\ import[i] \in Import
        /\ import[i].source \in Sources
        /\ import[i].content \in Contents
    BY DEF KnowledgeTypeOK, Import
  <1>2. ChunksOf[import[i].content] \in Seq(ChunkTexts)
    BY <1>1, KnowledgeAssumption
  <1>3. Total(i) \in Nat
    BY <1>2 DEF Total
  <1>4. import[i].pc = "embed" => documents[import[i].source] \in Document
    BY <1>1 DEF KnowledgeTypeOK
  <1> QED
    BY <1>1, <1>2, <1>3, <1>4

\* save_document stores one empty embedding slot per chunk.
LEMMA NewVectorsTypes ==
    ASSUME KnowledgeTypeOK, NEW i \in Imports, import[i].pc = "save"
    PROVE  /\ NewVectors(i) \in Seq(Vector \cup {None})
           /\ DOMAIN NewVectors(i) = DOMAIN ChunksOf[import[i].content]
           /\ \A k \in DOMAIN NewVectors(i) : NewVectors(i)[k] = None
  <1>1. ChunksOf[import[i].content] \in Seq(ChunkTexts)
    BY ImportTypes
  <1>2. NewVectors(i) \in [1 .. Len(ChunksOf[import[i].content]) -> Vector \cup {None}]
    BY <1>1 DEF NewVectors
  <1>3. Len(ChunksOf[import[i].content]) \in Nat
    BY <1>1
  <1> QED
    BY <1>1, <1>2, <1>3 DEF NewVectors

\* _upsert_embeddings fills slots of a document and leaves the rest of it.
LEMMA UpsertedTypes ==
    ASSUME KnowledgeTypeOK, NEW i \in Imports, import[i].pc = "embed", EmbeddedAll(i),
           NEW d \in Document
    PROVE  /\ Upserted(i, d) \in Document
           /\ Upserted(i, d).content = d.content
           /\ Upserted(i, d).by = d.by
           /\ DOMAIN Upserted(i, d).vectors = DOMAIN d.vectors
           /\ \A k \in DOMAIN d.vectors :
                 Upserted(i, d).vectors[k] =
                    IF k <= Total(i)
                    THEN [text |-> ChunksOf[import[i].content][k], by |-> i]
                    ELSE d.vectors[k]
  <1> DEFINE chunks == ChunksOf[import[i].content]
             old == d.vectors
             new == Upserted(i, d).vectors
  <1>1. chunks \in Seq(ChunkTexts) /\ Total(i) = Len(chunks) /\ import[i].embedded = Total(i)
    BY ImportTypes DEF Total, EmbeddedAll
  <1>2. d.content \in Contents /\ d.by \in Imports /\ old \in Seq(Vector \cup {None})
    BY DEF Document
  <1>3. d = [content |-> d.content, by |-> d.by, vectors |-> old]
    BY DEF Document
  <1>4. Upserted(i, d) =
           [content |-> d.content, by |-> d.by,
            vectors |-> [k \in DOMAIN old |-> IF k <= import[i].embedded
                                              THEN [text |-> chunks[k], by |-> i]
                                              ELSE old[k]]]
    BY <1>3 DEF Upserted
  <1>5. new = [k \in DOMAIN old |-> IF k <= Total(i)
                                    THEN [text |-> chunks[k], by |-> i] ELSE old[k]]
    BY <1>1, <1>4
  <1>6. \A k \in DOMAIN old : k <= Total(i) => chunks[k] \in ChunkTexts
    BY <1>1, <1>2
  <1>7. \A k \in DOMAIN old : new[k] \in Vector \cup {None}
    BY <1>2, <1>5, <1>6 DEF Vector
  <1>8. /\ Len(old) \in Nat /\ DOMAIN old = 1 .. Len(old)
        /\ new \in [DOMAIN old -> Vector \cup {None}]
    <2>1. Len(old) \in Nat /\ DOMAIN old = 1 .. Len(old)
      BY <1>2
    <2> QED
      BY <2>1, <1>5, <1>7
  <1>9. new \in Seq(Vector \cup {None})
    BY <1>8
  <1> HIDE DEF new
  <1>10. Upserted(i, d) = [content |-> d.content, by |-> d.by, vectors |-> new]
    BY <1>4 DEF new
  <1> QED
    BY <1>2, <1>5, <1>9, <1>10 DEF Document

--------------------------------------------------------------------------------
(***************************************************************************)
(* The invariant of the knowledge tables                                   *)
(***************************************************************************)

\* The import that saved a document has saved it, and while it embeds it works
\* on the content it saved.
SavedBy ==
    \A s \in Sources : documents[s] # None =>
        /\ import[documents[s].by].pc \notin {"new", "save"}
        /\ import[documents[s].by].pc = "embed" =>
              /\ import[documents[s].by].source = s
              /\ import[documents[s].by].content = documents[s].content

\* An import that embeds has saved the document last, or was overtaken by the
\* one that did.
EmbedsCurrent ==
    \A i \in Imports : import[i].pc = "embed" =>
        LET saver == documents[import[i].source].by
        IN  <<i, saver>> \in overtaken \/ saver = i

\* An embedding that no import stored that the saving one overtook is its own,
\* for the text of its chunk.
VectorsAreCurrent ==
    \A s \in Sources : documents[s] # None =>
        \A k \in DOMAIN documents[s].vectors : documents[s].vectors[k] # None =>
            \/ <<documents[s].vectors[k].by, documents[s].by>> \in overtaken
            \/ /\ documents[s].vectors[k].by = documents[s].by
               /\ documents[s].vectors[k].text = TextOf(s, k)

KnowledgeInv ==
    /\ KnowledgeTypeOK
    /\ SavedBy
    /\ EmbedsCurrent
    /\ VectorsAreCurrent
    /\ ImportedIsSearchable

\* An empty knowledge base satisfies the invariant.
LEMMA KnowledgeStarts == KnowledgeInit => KnowledgeInv
  BY KnowledgeAssumption
     DEF KnowledgeInit, KnowledgeInv, KnowledgeTypeOK, SavedBy, EmbedsCurrent,
         VectorsAreCurrent, ImportedIsSearchable, NoImport, Import, ImportPC

\* loader.load changes one import that no document was saved by.
LEMMA LoadKeeps ==
    ASSUME KnowledgeInv, NEW i \in Imports, Load(i)
    PROVE  KnowledgeInv'
  <1> USE DEF KnowledgeInv
  <1>1. PICK s \in Sources, content \in Contents :
           import' = [import EXCEPT ![i] = [pc |-> "save", source |-> s,
                                            content |-> content, embedded |-> 0]]
    BY DEF Load
  <1>2. /\ import[i].pc = "new" /\ documents' = documents /\ overtaken' = overtaken
        /\ import' \in [Imports -> Import]
        /\ import'[i].pc = "save" /\ import'[i].source = s /\ import'[i].content = content
        /\ import'[i].embedded = 0
        /\ \A j \in Imports \ {i} : import'[j] = import[j]
    BY <1>1 DEF Load, KnowledgeTypeOK, Import, ImportPC
  <1>3. \A t \in Sources : documents[t] # None => documents[t].by \in Imports \ {i}
    BY <1>2 DEF KnowledgeTypeOK, Document, SavedBy
  <1>4. KnowledgeTypeOK'
    BY <1>2, KnowledgeAssumption DEF KnowledgeTypeOK, Total
  <1>5. SavedBy'
    BY <1>2, <1>3 DEF SavedBy
  <1>6. EmbedsCurrent'
    BY <1>2 DEF EmbedsCurrent
  <1>7. VectorsAreCurrent'
    BY <1>2 DEF VectorsAreCurrent, TextOf
  <1>8. ImportedIsSearchable'
    BY <1>2, <1>3 DEF ImportedIsSearchable
  <1> QED
    BY <1>4, <1>5, <1>6, <1>7, <1>8

\* One embedding more changes neither the tables nor what is embedded.
LEMMA EmbedKeeps ==
    ASSUME KnowledgeInv, NEW i \in Imports, EmbedChunk(i)
    PROVE  KnowledgeInv'
  <1> USE DEF KnowledgeInv
  <1>1. Total(i) \in Nat /\ import[i] \in Import
    BY ImportTypes DEF EmbedChunk
  <1>2. /\ documents' = documents /\ overtaken' = overtaken
        /\ import' \in [Imports -> Import]
        /\ import'[i].embedded = import[i].embedded + 1
        /\ import[i].embedded < Total(i)
        /\ \A j \in Imports : /\ import'[j].pc = import[j].pc
                              /\ import'[j].source = import[j].source
                              /\ import'[j].content = import[j].content
        /\ \A j \in Imports \ {i} : import'[j].embedded = import[j].embedded
    BY <1>1 DEF EmbedChunk, KnowledgeTypeOK, Import
  <1>3. \A j \in Imports : Total(j)' = Total(j)
    BY <1>2 DEF Total
  <1>4. KnowledgeTypeOK'
    <2>1. \A j \in Imports : import'[j].pc = "embed" => import'[j].embedded <= Total(j)'
      BY <1>1, <1>2, <1>3 DEF KnowledgeTypeOK, Import
    <2>2. \A j \in Imports : import'[j].pc = "save" => import'[j].embedded = 0
      BY <1>2 DEF EmbedChunk, KnowledgeTypeOK
    <2> QED
      BY <1>2, <2>1, <2>2 DEF KnowledgeTypeOK
  <1>5. \A t \in Sources : documents[t] # None => documents[t].by \in Imports
    BY DEF KnowledgeTypeOK, Document
  <1>6. SavedBy'
    BY <1>2, <1>5 DEF SavedBy
  <1>7. EmbedsCurrent' /\ VectorsAreCurrent'
    BY <1>2 DEF EmbedsCurrent, VectorsAreCurrent, TextOf
  <1>8. ImportedIsSearchable'
    BY <1>2, <1>5 DEF ImportedIsSearchable
  <1> QED
    BY <1>4, <1>6, <1>7, <1>8

\* An import that fails or dies leaves the tables as they are.
LEMMA StopKeeps ==
    ASSUME KnowledgeInv, NEW i \in Imports, NEW pc \in {"failed", "dead"}, Goto(i, pc),
           UNCHANGED <<documents, overtaken>>
    PROVE  KnowledgeInv'
  <1> USE DEF KnowledgeInv
  <1>1. /\ import' = [import EXCEPT ![i] = NoImport(pc)]
        /\ documents' = documents /\ overtaken' = overtaken
    BY DEF Goto, Ended
  <1>2. /\ import' \in [Imports -> Import]
        /\ import'[i].pc = pc
        /\ \A j \in Imports \ {i} : import'[j] = import[j]
    BY <1>1 DEF KnowledgeTypeOK, NoImport, Import, ImportPC
  <1>3. \A t \in Sources : documents[t] # None => documents[t].by \in Imports
    BY DEF KnowledgeTypeOK, Document
  <1>4. KnowledgeTypeOK'
    BY <1>1, <1>2 DEF KnowledgeTypeOK, Total
  <1>5. SavedBy'
    BY <1>1, <1>2, <1>3 DEF SavedBy
  <1>6. EmbedsCurrent' /\ VectorsAreCurrent'
    BY <1>1, <1>2 DEF EmbedsCurrent, VectorsAreCurrent, TextOf
  <1>7. ImportedIsSearchable'
    BY <1>1, <1>2, <1>3 DEF ImportedIsSearchable
  <1> QED
    BY <1>4, <1>5, <1>6, <1>7

\* save_document replaces the chunks of one document; its other imports are
\* overtaken from here on.
LEMMA SaveKeeps ==
    ASSUME KnowledgeInv, NEW i \in Imports, SaveDocument(i)
    PROVE  KnowledgeInv'
  <1> USE DEF KnowledgeInv
  <1> DEFINE s == import[i].source
             c == import[i].content
             d == [content |-> c, by |-> i, vectors |-> NewVectors(i)]
  <1>1. PICK pc \in {"embed", "failed"} : Goto(i, pc)
    BY DEF SaveDocument
  <1>2. /\ import[i] \in Import /\ import[i].pc = "save"
        /\ s \in Sources /\ c \in Contents /\ import[i].embedded \in Nat
    BY ImportTypes DEF SaveDocument, Import
  <1>3. /\ import' \in [Imports -> Import]
        /\ import'[i].pc = pc
        /\ pc = "embed" => import'[i].source = s /\ import'[i].content = c
                           /\ import'[i].embedded = import[i].embedded
        /\ \A j \in Imports \ {i} : import'[j] = import[j]
    BY <1>1, <1>2 DEF Goto, Ended, NoImport, KnowledgeTypeOK, Import, ImportPC
  <1>4. /\ NewVectors(i) \in Seq(Vector \cup {None})
        /\ DOMAIN NewVectors(i) = DOMAIN ChunksOf[c]
        /\ \A k \in DOMAIN NewVectors(i) : NewVectors(i)[k] = None
    BY <1>2, NewVectorsTypes
  <1>5. d \in Document /\ d # None
    BY <1>2, <1>4, RowAssumption DEF Document
  <1>6. /\ documents' \in [Sources -> Document \cup {None}]
        /\ documents'[s] = d
        /\ \A t \in Sources \ {s} : documents'[t] = documents[t]
    BY <1>2, <1>5 DEF SaveDocument, KnowledgeTypeOK
  <1> HIDE DEF d
  <1>7. d.content = c /\ d.by = i /\ d.vectors = NewVectors(i)
    BY DEF d
  <1>8. overtaken' = overtaken \cup (Rivals(i) \X {i})
    BY DEF SaveDocument
  <1>9. \A t \in Sources : documents[t] # None => documents[t].by \in Imports \ {i}
    BY <1>2 DEF KnowledgeTypeOK, Document, SavedBy
  <1>10. KnowledgeTypeOK'
    <2>1. overtaken' \subseteq Imports \X Imports
      BY <1>8 DEF Rivals, KnowledgeTypeOK
    <2>2. \A t \in Sources : documents'[t] # None =>
             DOMAIN documents'[t].vectors = DOMAIN ChunksOf[documents'[t].content]
      BY <1>4, <1>6, <1>7 DEF KnowledgeTypeOK
    <2>3. \A j \in Imports : import'[j].pc \in {"save", "embed"} =>
             import'[j].source # None /\ import'[j].content # None
      BY <1>2, <1>3, KnowledgeAssumption DEF KnowledgeTypeOK
    <2>4. ASSUME NEW j \in Imports, import'[j].pc = "embed"
          PROVE  documents'[import'[j].source] # None /\ import'[j].embedded <= Total(j)'
      <3>1. CASE j = i
        <4>1. import[i].embedded = 0
          BY <1>2 DEF KnowledgeTypeOK
        <4>2. import'[j].source = s /\ import'[j].embedded = 0 /\ Total(j)' = Len(ChunksOf[c])
          BY <4>1, <2>4, <3>1, <1>3 DEF Total
        <4>3. ChunksOf[c] \in Seq(ChunkTexts)
          BY <1>2, KnowledgeAssumption
        <4> QED
          BY <4>2, <4>3, <1>5, <1>6
      <3>2. CASE j # i
        <4>1. import'[j] = import[j] /\ import[j].source \in Sources
          BY <2>4, <3>2, <1>3, ImportTypes
        <4>2. documents[import[j].source] # None /\ import[j].embedded <= Total(j)
          BY <4>1, <2>4 DEF KnowledgeTypeOK
        <4> QED
          BY <4>1, <4>2, <1>5, <1>6 DEF Total
      <3> QED
        BY <3>1, <3>2
    <2> QED
      BY <2>1, <2>2, <2>3, <2>4, <1>3, <1>6 DEF KnowledgeTypeOK
  <1>11. SavedBy'
    BY <1>3, <1>6, <1>7, <1>9 DEF SavedBy
  <1>12. EmbedsCurrent'
    <2> SUFFICES ASSUME NEW j \in Imports, import'[j].pc = "embed"
                 PROVE  LET saver == documents'[import'[j].source].by
                        IN  <<j, saver>> \in overtaken' \/ saver = j
      BY DEF EmbedsCurrent
    <2>1. CASE j = i
      BY <2>1, <1>1, <1>3, <1>6, <1>7
    <2>2. CASE j # i /\ import[j].source = s
      <3>1. documents'[import'[j].source].by = i /\ j \in Rivals(i)
        BY <2>2, <1>3, <1>6, <1>7 DEF Rivals
      <3> QED
        BY <3>1, <1>8
    <2>3. CASE j # i /\ import[j].source # s
      BY <2>3, <1>3, <1>6, <1>8, ImportTypes DEF EmbedsCurrent
    <2> QED
      BY <2>1, <2>2, <2>3
  <1>13. VectorsAreCurrent'
    BY <1>4, <1>6, <1>7, <1>8 DEF VectorsAreCurrent, TextOf
  <1>14. ImportedIsSearchable'
    BY <1>1, <1>3, <1>6, <1>7, <1>9 DEF ImportedIsSearchable
  <1> QED
    BY <1>10, <1>11, <1>12, <1>13, <1>14

\* save_embeddings fills the slots of the document as it is now.
LEMMA StoreKeeps ==
    ASSUME KnowledgeInv, NEW i \in Imports, StoreEmbeddings(i)
    PROVE  KnowledgeInv'
  <1> USE DEF KnowledgeInv
  <1> DEFINE s == import[i].source
             old == documents[s]
             new == Upserted(i, old)
  <1>1. PICK pc \in {"imported", "failed"} : Goto(i, pc)
    BY DEF StoreEmbeddings
  <1>2. /\ import[i] \in Import /\ import[i].pc = "embed" /\ EmbeddedAll(i)
        /\ s \in Sources /\ old \in Document /\ old # None
        /\ Total(i) = Len(ChunksOf[import[i].content])
        /\ ChunksOf[import[i].content] \in Seq(ChunkTexts)
    BY ImportTypes, RowAssumption DEF StoreEmbeddings, Total
  <1>3. /\ import' = [import EXCEPT ![i] = NoImport(pc)]
        /\ import' \in [Imports -> Import]
        /\ import'[i].pc = pc
        /\ \A j \in Imports \ {i} : import'[j] = import[j]
    BY <1>1 DEF Goto, Ended, NoImport, KnowledgeTypeOK, Import, ImportPC
  <1>4. /\ new \in Document /\ new # None
        /\ new.content = old.content /\ new.by = old.by
        /\ DOMAIN new.vectors = DOMAIN old.vectors
        /\ \A k \in DOMAIN old.vectors :
              new.vectors[k] = IF k <= Total(i)
                               THEN [text |-> ChunksOf[import[i].content][k], by |-> i]
                               ELSE old.vectors[k]
    BY <1>2, UpsertedTypes, RowAssumption
  <1>5. /\ documents' \in [Sources -> Document \cup {None}]
        /\ documents'[s] = new
        /\ \A t \in Sources \ {s} : documents'[t] = documents[t]
        /\ overtaken' = overtaken
    BY <1>2, <1>4 DEF StoreEmbeddings, KnowledgeTypeOK
  <1> HIDE DEF new
  <1>6. \A t \in Sources : documents[t] # None => documents[t].by \in Imports
    BY DEF KnowledgeTypeOK, Document
  <1>7. \A k \in DOMAIN old.vectors : k <= Total(i) =>
           /\ new.vectors[k] # None
           /\ new.vectors[k].by = i
           /\ new.vectors[k].text = ChunksOf[import[i].content][k]
    <2>1. DOMAIN old.vectors \subseteq Nat \ {0}
      BY <1>2 DEF Document
    <2>2. \A k \in DOMAIN old.vectors : k <= Total(i) =>
             [text |-> ChunksOf[import[i].content][k], by |-> i] \in Vector
      BY <2>1, <1>2 DEF Vector
    <2> TAKE k \in DOMAIN old.vectors
    <2> HAVE k <= Total(i)
    <2> DEFINE v == [text |-> ChunksOf[import[i].content][k], by |-> i]
    <2>3. new.vectors[k] = v
      BY <1>4
    <2>4. v \in Vector
      BY <2>2
    <2>5. v # None
      BY <2>4, RowAssumption
    <2> QED
      BY <2>3, <2>5
  <1>8. KnowledgeTypeOK'
    <2>1. \A t \in Sources : documents'[t] # None =>
             DOMAIN documents'[t].vectors = DOMAIN ChunksOf[documents'[t].content]
      BY <1>2, <1>4, <1>5 DEF KnowledgeTypeOK
    <2>2. \A j \in Imports : import'[j].pc \in {"save", "embed"} =>
             /\ import'[j] = import[j] /\ Total(j)' = Total(j)
             /\ import[j].pc = "embed" => import[j].source \in Sources
      BY <1>3, ImportTypes DEF Total
    <2>3. \A j \in Imports : import'[j].pc = "embed" =>
             documents'[import'[j].source] # None /\ import'[j].embedded <= Total(j)'
      BY <2>2, <1>4, <1>5 DEF KnowledgeTypeOK
    <2> QED
      BY <2>1, <2>2, <2>3, <1>3, <1>5 DEF KnowledgeTypeOK
  <1>9. SavedBy'
    BY <1>2, <1>3, <1>4, <1>5, <1>6 DEF SavedBy
  <1>10. EmbedsCurrent'
    BY <1>2, <1>3, <1>4, <1>5, ImportTypes DEF EmbedsCurrent
  <1>11. <<i, old.by>> \in overtaken \/ (old.by = i /\ import[i].content = old.content)
    BY <1>2 DEF EmbedsCurrent, SavedBy
  <1>12. VectorsAreCurrent'
    <2> SUFFICES ASSUME NEW t \in Sources, documents'[t] # None,
                        NEW k \in DOMAIN documents'[t].vectors,
                        documents'[t].vectors[k] # None
                 PROVE  \/ <<documents'[t].vectors[k].by, documents'[t].by>> \in overtaken'
                        \/ /\ documents'[t].vectors[k].by = documents'[t].by
                           /\ documents'[t].vectors[k].text = TextOf(t, k)'
      BY DEF VectorsAreCurrent
    <2>1. CASE t # s
      BY <2>1, <1>5 DEF VectorsAreCurrent, TextOf
    <2>2. CASE t = s /\ k <= Total(i)
      BY <2>2, <1>4, <1>5, <1>7, <1>11 DEF TextOf
    <2>3. CASE t = s /\ ~(k <= Total(i))
      <3>1. documents'[t] = new /\ k \in DOMAIN old.vectors
        BY <2>3, <1>4, <1>5
      <3>2. new.vectors[k] = old.vectors[k]
        BY <2>3, <3>1, <1>4
      <3>3. \/ <<old.vectors[k].by, old.by>> \in overtaken
            \/ old.vectors[k].by = old.by /\ old.vectors[k].text = ChunksOf[old.content][k]
        BY <3>1, <3>2, <1>2 DEF VectorsAreCurrent, TextOf
      <3>4. TextOf(t, k)' = ChunksOf[old.content][k]
        BY <3>1, <1>4 DEF TextOf
      <3> QED
        BY <3>1, <3>2, <3>3, <3>4, <1>4, <1>5
    <2> QED
      BY <2>1, <2>2, <2>3
  <1>13. ImportedIsSearchable'
    <2> SUFFICES ASSUME NEW t \in Sources, documents'[t] # None,
                        import'[documents'[t].by].pc = "imported",
                        NEW k \in DOMAIN documents'[t].vectors
                 PROVE  documents'[t].vectors[k] # None
      BY DEF ImportedIsSearchable
    <2>1. documents[t] # None /\ documents'[t].by = documents[t].by
      BY <1>2, <1>4, <1>5
    <2>2. CASE t = s /\ old.by = i
      <3>1. import[i].content = old.content /\ k \in DOMAIN old.vectors
        BY <2>2, <1>2, <1>4, <1>5 DEF SavedBy
      <3>2. k <= Total(i)
        BY <3>1, <1>2 DEF KnowledgeTypeOK
      <3> QED
        BY <3>1, <3>2, <2>2, <1>5, <1>7
    <2>3. CASE t = s /\ old.by # i
      <3>1. k \in DOMAIN old.vectors /\ old.vectors[k] # None
        BY <2>1, <2>3, <1>2, <1>3, <1>4, <1>5, <1>6 DEF ImportedIsSearchable
      <3> QED
        BY <3>1, <2>3, <1>4, <1>5, <1>7
    <2>4. CASE t # s
      <3>1. documents[t].by # i
        BY <2>1, <2>4, <1>2 DEF SavedBy
      <3> QED
        BY <3>1, <2>1, <2>4, <1>3, <1>5, <1>6 DEF ImportedIsSearchable
    <2> QED
      BY <2>2, <2>3, <2>4
  <1> QED
    BY <1>8, <1>9, <1>10, <1>12, <1>13

\* Every step of an import keeps it, and what was overtaken stays so.
LEMMA ImportKeeps ==
    ASSUME KnowledgeInv, NEW i \in Imports, ImportStep(i) \/ ImportDies(i)
    PROVE  KnowledgeInv' /\ overtaken \subseteq overtaken'
  <1>1. KnowledgeInv'
    <2>1. CASE Load(i) \/ EmbedChunk(i)
      BY <2>1, LoadKeeps, EmbedKeeps
    <2>2. CASE SaveDocument(i) \/ StoreEmbeddings(i)
      BY <2>2, SaveKeeps, StoreKeeps
    <2>3. CASE ImportFails(i) \/ ImportDies(i)
      BY <2>3, StopKeeps DEF ImportFails, ImportDies
    <2> QED
      BY <2>1, <2>2, <2>3 DEF ImportStep
  <1>2. overtaken \subseteq overtaken'
    BY DEF ImportStep, ImportDies, Load, SaveDocument, EmbedChunk, StoreEmbeddings, ImportFails
  <1> QED
    BY <1>1, <1>2

\* A transaction without a change to the knowledge tables.
LEMMA KnowledgeUnchanged ==
    ASSUME KnowledgeInv, UNCHANGED kvars
    PROVE  KnowledgeInv'
  BY DEF kvars, KnowledgeInv, KnowledgeTypeOK, SavedBy, EmbedsCurrent, VectorsAreCurrent,
         ImportedIsSearchable, TextOf, Total

--------------------------------------------------------------------------------
(***************************************************************************)
(* The memory table                                                        *)
(***************************************************************************)

\* What no request takes back: a committed row keeps its scope and its time,
\* a deleted one stays deleted, and an answer is final.
MemoriesPersist ==
    \A m \in Memories :
        /\ Stored(m) => /\ Stored(m)'
                        /\ memories'[m].scope = memories[m].scope
                        /\ memories'[m].updated_at = memories[m].updated_at
                        /\ memories[m].deleted => memories'[m].deleted
        /\ remember[m] = "created" => remember'[m] = "created"

\* Every transaction on the memory table keeps its types and what persists.
LEMMA MemoryKeeps ==
    ASSUME MemoryTypeOK, MemoryNext
    PROVE  MemoryTypeOK' /\ MemoriesPersist
  <1>1. PICK m \in Memories : RememberStep(m) \/ Forget(m)
    BY DEF MemoryNext
  <1>2. memories[m] = Absent \/ memories[m] \in Row
    BY DEF MemoryTypeOK
  <1>3. CASE BeginRemember(m)
    <2>1. PICK scope \in Scopes :
             memories' = [memories EXCEPT ![m] =
                             [scope |-> scope, updated_at |-> clock + 1,
                              committed |-> FALSE, deleted |-> FALSE]]
      BY <1>3 DEF BeginRemember
    <2> DEFINE row == [scope |-> scope, updated_at |-> clock + 1,
                       committed |-> FALSE, deleted |-> FALSE]
    <2>2. row \in Row /\ row # Absent /\ clock \in Nat /\ clock' = clock + 1
      <3>1. clock \in Nat /\ clock' = clock + 1
        BY <1>3 DEF MemoryTypeOK, BeginRemember
      <3>2. row \in Row
        BY <3>1 DEF Row
      <3> QED
        BY <3>1, <3>2, AbsentAssumption
    <2>3. /\ remember[m] = "none" /\ memories[m] = Absent
          /\ remember' = [remember EXCEPT ![m] = "open"]
      BY <1>3 DEF MemoryTypeOK, BeginRemember
    <2>4. MemoryTypeOK'
      BY <2>1, <2>2, <2>3 DEF MemoryTypeOK, Answers, Stored, Row
    <2>5. MemoriesPersist
      BY <2>1, <2>3 DEF MemoriesPersist, MemoryTypeOK, Stored
    <2> QED
      BY <2>4, <2>5
  <1>4. CASE CommitRemember(m)
    <2> DEFINE row == [memories[m] EXCEPT !.committed = TRUE]
    <2>1. PICK answer \in {"created", "unavailable"} :
             remember' = [remember EXCEPT ![m] = answer]
      BY <1>4 DEF CommitRemember
    <2>2. /\ remember[m] = "open" /\ memories[m] \in Row /\ ~memories[m].committed
          /\ clock' = clock
      BY <1>2, <1>4 DEF CommitRemember, MemoryTypeOK
    <2>3. /\ row \in Row /\ row # Absent /\ row.committed
          /\ row.updated_at = memories[m].updated_at
          /\ memories' = [memories EXCEPT ![m] = row]
      BY <1>4, <2>2, AbsentAssumption DEF CommitRemember, Row
    <2> HIDE DEF row
    <2>4. MemoryTypeOK'
      BY <2>1, <2>2, <2>3 DEF MemoryTypeOK, Answers, Stored
    <2>5. MemoriesPersist
      BY <2>1, <2>2, <2>3 DEF MemoriesPersist, MemoryTypeOK, Stored
    <2> QED
      BY <2>4, <2>5
  <1>5. CASE RememberFails(m)
    <2>1. /\ remember[m] = "open" /\ ~memories[m].committed
          /\ memories' = [memories EXCEPT ![m] = Absent]
          /\ remember' = [remember EXCEPT ![m] = "unavailable"]
          /\ clock' = clock
      BY <1>5 DEF RememberFails, MemoryTypeOK
    <2>2. MemoryTypeOK'
      BY <2>1 DEF MemoryTypeOK, Answers, Stored
    <2>3. MemoriesPersist
      BY <2>1 DEF MemoriesPersist, MemoryTypeOK, Stored
    <2> QED
      BY <2>2, <2>3
  <1>6. CASE Forget(m)
    <2> DEFINE row == [memories[m] EXCEPT !.deleted = TRUE]
    <2>1. memories[m] \in Row /\ memories[m] # Absent /\ memories[m].committed
      BY <1>2, <1>6 DEF Forget, Stored
    <2>2. /\ row \in Row /\ row # Absent /\ row.committed /\ row.deleted
          /\ row.updated_at = memories[m].updated_at
          /\ row.scope = memories[m].scope
          /\ memories' = [memories EXCEPT ![m] = row]
          /\ remember' = remember /\ clock' = clock
      BY <1>6, <2>1, AbsentAssumption DEF Forget, Row
    <2> HIDE DEF row
    <2>3. MemoryTypeOK'
      BY <2>1, <2>2 DEF MemoryTypeOK, Stored
    <2>4. MemoriesPersist
      BY <2>1, <2>2 DEF MemoriesPersist, MemoryTypeOK, Stored
    <2> QED
      BY <2>3, <2>4
  <1> QED
    BY <1>1, <1>3, <1>4, <1>5, <1>6 DEF RememberStep

\* Finitely many memories are newer, and they stay newer.
LEMMA NewerGrows ==
    ASSUME MemoriesPersist, NEW m \in Memories, Stored(m), NEW CONSTANT F
    PROVE  /\ IsFiniteSet(Newer(m, F)) /\ IsFiniteSet(Newer(m, F)')
           /\ Cardinality(Newer(m, F)) \in Nat /\ Cardinality(Newer(m, F)') \in Nat
           /\ Cardinality(Newer(m, F)) <= Cardinality(Newer(m, F)')
  <1>1. Newer(m, F) \subseteq Memories /\ Newer(m, F)' \subseteq Memories
    BY DEF Newer
  <1>2. IsFiniteSet(Newer(m, F)) /\ IsFiniteSet(Newer(m, F)')
    BY <1>1, MemoryAssumption, FS_Subset
  <1>3. Newer(m, F) \subseteq Newer(m, F)'
    BY DEF Newer, MemoriesPersist
  <1> QED
    BY <1>2, <1>3, FS_Subset, FS_CardinalityType

--------------------------------------------------------------------------------
(***************************************************************************)
(* Chat turns                                                              *)
(***************************************************************************)

\* A turn begins without memories, and what it remembers of its beginning is
\* still so.
HistoryHolds ==
    \A t \in Turns :
        /\ turn[t].pc = "new" => turn[t].memory = {}
        /\ turn[t].forgotten \subseteq Deleted
        /\ \A m \in turn[t].remembered : m \in Memories /\ remember[m] = "created"

ContextInv ==
    /\ KnowledgeInv
    /\ MemoryTypeOK
    /\ turn \in [Turns -> Turn]
    /\ HistoryHolds
    /\ FoundByOwnEmbedding
    /\ ForgottenIsNotUsed
    /\ RecentMemoriesAreUsed

\* Before the first import, memory and turn there is nothing to violate.
LEMMA ContextStarts == Init => ContextInv
  <1> SUFFICES ASSUME Init PROVE ContextInv
    OBVIOUS
  <1>1. KnowledgeInv
    BY KnowledgeStarts DEF Init
  <1>2. MemoryTypeOK
    BY DEF Init, MemoryInit, MemoryTypeOK, Answers
  <1> QED
    BY <1>1, <1>2
       DEF Init, ContextInv, Turn, TurnPC, HistoryHolds, FoundByOwnEmbedding,
           ForgottenIsNotUsed, RecentMemoriesAreUsed

\* Imports only add to the overtaken ones, and touch no turn and no memory.
LEMMA KnowledgeStep ==
    ASSUME ContextInv, KnowledgeNext, UNCHANGED <<mvars, turn>>
    PROVE  ContextInv'
  <1> USE DEF ContextInv
  <1>1. KnowledgeInv' /\ overtaken \subseteq overtaken'
    BY ImportKeeps DEF KnowledgeNext
  <1>2. UNCHANGED <<memories, remember, clock, turn>>
    BY DEF mvars
  <1>3. MemoryTypeOK' /\ HistoryHolds' /\ ForgottenIsNotUsed' /\ RecentMemoriesAreUsed'
    BY <1>2 DEF MemoryTypeOK, HistoryHolds, ForgottenIsNotUsed, RecentMemoriesAreUsed,
                Stored, Deleted, Newer
  <1>4. FoundByOwnEmbedding'
    BY <1>1, <1>2 DEF FoundByOwnEmbedding
  <1> QED
    BY <1>1, <1>2, <1>3, <1>4

\* Memory requests take nothing back that a turn relies on.
LEMMA MemoryStep ==
    ASSUME ContextInv, MemoryNext, UNCHANGED <<kvars, turn>>
    PROVE  ContextInv'
  <1> USE DEF ContextInv
  <1>1. MemoryTypeOK' /\ MemoriesPersist
    BY MemoryKeeps
  <1>2. UNCHANGED <<documents, import, overtaken, turn>>
    BY DEF kvars
  <1>3. KnowledgeInv'
    BY KnowledgeUnchanged
  <1>4. HistoryHolds'
    BY <1>1, <1>2 DEF HistoryHolds, MemoriesPersist, Deleted
  <1>5. FoundByOwnEmbedding' /\ ForgottenIsNotUsed'
    BY <1>2 DEF FoundByOwnEmbedding, ForgottenIsNotUsed
  <1>6. RecentMemoriesAreUsed'
    <2> SUFFICES ASSUME NEW t \in Turns, turn[t].pc \in {"model", "answered"},
                        NEW m \in turn[t].remembered,
                        m \notin turn[t].memory, ~turn[t].blocked,
                        memories'[m].scope = UserScope, ~memories'[m].deleted
                 PROVE  Cardinality(Newer(m, turn[t].forgotten)') >= MemoryLimit
      BY <1>2 DEF RecentMemoriesAreUsed
    <2>1. m \in Memories /\ Stored(m)
      BY DEF HistoryHolds, MemoryTypeOK
    <2>2. memories[m].scope = UserScope /\ ~memories[m].deleted
      BY <2>1, <1>1 DEF MemoriesPersist
    <2>3. Cardinality(Newer(m, turn[t].forgotten)) >= MemoryLimit
      BY <2>2 DEF RecentMemoriesAreUsed
    <2> QED
      BY <1>1, <2>1, <2>3, NewerGrows, ContextAssumption
  <1> QED
    BY <1>1, <1>2, <1>3, <1>4, <1>5, <1>6

\* The two stores are as they were, and one turn becomes new.
LEMMA OneTurn ==
    ASSUME ContextInv, NEW t \in Turns, UNCHANGED <<kvars, mvars>>,
           NEW new \in Turn, turn' = [turn EXCEPT ![t] = new], new.pc # "new",
           new.forgotten \subseteq Deleted,
           \A m \in new.remembered : m \in Memories /\ remember[m] = "created",
           \A f \in new.knowledge : f.vector = f.by \/ <<f.vector, f.by>> \in overtaken,
           new.memory \cap new.forgotten = {},
           new.pc \in {"model", "answered"} =>
              \A m \in new.remembered :
                 \/ m \in new.memory
                 \/ memories[m].scope # UserScope
                 \/ memories[m].deleted
                 \/ Cardinality(Newer(m, new.forgotten)) >= MemoryLimit
                 \/ new.blocked
    PROVE  ContextInv'
  <1> USE DEF ContextInv
  <1>1. UNCHANGED <<documents, import, overtaken, memories, remember, clock>>
    BY DEF kvars, mvars
  <1>2. KnowledgeInv'
    BY KnowledgeUnchanged
  <1>3. /\ turn' \in [Turns -> Turn] /\ turn'[t] = new
        /\ \A u \in Turns \ {t} : turn'[u] = turn[u]
    OBVIOUS
  <1>4. MemoryTypeOK'
    BY <1>1 DEF MemoryTypeOK, Stored
  <1>5. HistoryHolds'
    BY <1>1, <1>3 DEF HistoryHolds, Deleted, Stored
  <1>6. FoundByOwnEmbedding'
    BY <1>1, <1>3 DEF FoundByOwnEmbedding
  <1>7. ForgottenIsNotUsed'
    BY <1>1, <1>3 DEF ForgottenIsNotUsed
  <1>8. RecentMemoriesAreUsed'
    BY <1>1, <1>3 DEF RecentMemoriesAreUsed, Newer, Stored
  <1> QED
    BY <1>2, <1>3, <1>4, <1>5, <1>6, <1>7, <1>8

\* A turn is received: it looks at both tables once.
LEMMA ReceiveKeeps ==
    ASSUME ContextInv, NEW t \in Turns, Receive(t)
    PROVE  ContextInv'
  <1> DEFINE old == turn[t]
             known == {m \in Memories : remember[m] = "created"}
             new == [old EXCEPT !.pc = "query", !.remembered = known, !.forgotten = Deleted]
  <1>1. old \in Turn /\ old.pc = "new" /\ old.memory = {}
    BY DEF ContextInv, HistoryHolds, Receive
  <1>2. Deleted \subseteq Memories
    BY DEF Deleted
  <1>3. /\ new \in Turn
        /\ new.pc = "query" /\ new.remembered = known /\ new.forgotten = Deleted
        /\ new.knowledge = old.knowledge /\ new.memory = {}
    BY <1>1, <1>2 DEF Turn, TurnPC
  <1>4. turn' = [turn EXCEPT ![t] = new] /\ UNCHANGED <<kvars, mvars>>
    BY DEF Receive
  <1>5. \A f \in new.knowledge : f.vector = f.by \/ <<f.vector, f.by>> \in overtaken
    BY <1>3 DEF ContextInv, FoundByOwnEmbedding
  <1> HIDE DEF new
  <1>6. /\ new.forgotten \subseteq Deleted
        /\ \A m \in new.remembered : m \in Memories /\ remember[m] = "created"
        /\ new.memory \cap new.forgotten = {}
        /\ new.pc \notin {"new", "model", "answered"}
    BY <1>3
  <1> QED
    BY <1>3, <1>4, <1>5, <1>6, OneTurn

\* A turn moves on without a look at the tables.
LEMMA MoveKeeps ==
    ASSUME ContextInv, NEW t \in Turns, EmbedQuery(t) \/ Answer(t) \/ TurnFails(t)
    PROVE  ContextInv'
  <1> DEFINE old == turn[t]
  <1>1. PICK pc \in {"search", "answered", "error"} :
           /\ turn' = [turn EXCEPT ![t].pc = pc]
           /\ UNCHANGED <<kvars, mvars>>
           /\ pc = "answered" => old.pc = "model"
    BY DEF EmbedQuery, Answer, TurnFails
  <1> DEFINE new == [old EXCEPT !.pc = pc]
  <1>2. old \in Turn
    BY DEF ContextInv
  <1>3. /\ new \in Turn
        /\ new.pc = pc /\ new.remembered = old.remembered /\ new.forgotten = old.forgotten
        /\ new.knowledge = old.knowledge /\ new.memory = old.memory
        /\ new.blocked = old.blocked
    BY <1>2 DEF Turn, TurnPC
  <1>4. turn' = [turn EXCEPT ![t] = new]
    BY <1>1
  <1> HIDE DEF new
  <1>5. /\ new.forgotten \subseteq Deleted
        /\ \A m \in new.remembered : m \in Memories /\ remember[m] = "created"
    BY <1>3 DEF ContextInv, HistoryHolds
  <1>6. \A f \in new.knowledge : f.vector = f.by \/ <<f.vector, f.by>> \in overtaken
    BY <1>3 DEF ContextInv, FoundByOwnEmbedding
  <1>7. new.memory \cap new.forgotten = {}
    BY <1>3 DEF ContextInv, ForgottenIsNotUsed
  <1>8. new.pc \in {"model", "answered"} =>
              \A m \in new.remembered :
                 \/ m \in new.memory
                 \/ memories[m].scope # UserScope
                 \/ memories[m].deleted
                 \/ Cardinality(Newer(m, new.forgotten)) >= MemoryLimit
                 \/ new.blocked
    BY <1>1, <1>3 DEF ContextInv, RecentMemoriesAreUsed
  <1> QED
    BY <1>1, <1>3, <1>4, <1>5, <1>6, <1>7, <1>8, OneTurn

\* What a search finds has an embedding by the import that saved it, or by an
\* overtaken one.
LEMMA FoundIsCurrent ==
    ASSUME KnowledgeInv, NEW f \in Found
    PROVE  f \in Finding /\ (f.vector = f.by \/ <<f.vector, f.by>> \in overtaken)
  <1>0. PICK s \in Sources :
           /\ documents[s] # None
           /\ \E k \in DOMAIN documents[s].vectors :
                 /\ documents[s].vectors[k] # None
                 /\ f = [source |-> s, index |-> k, by |-> documents[s].by,
                         vector |-> documents[s].vectors[k].by]
    BY DEF Found
  <1>1. PICK k \in DOMAIN documents[s].vectors :
           /\ documents[s] # None /\ documents[s].vectors[k] # None
           /\ f = [source |-> s, index |-> k, by |-> documents[s].by,
                   vector |-> documents[s].vectors[k].by]
    BY <1>0
  <1>2. documents[s] \in Document
    BY <1>1 DEF KnowledgeInv, KnowledgeTypeOK
  <1>3. /\ documents[s].by \in Imports
        /\ documents[s].vectors \in Seq(Vector \cup {None})
    BY <1>2 DEF Document
  <1>4. k \in Nat /\ documents[s].vectors[k] \in Vector
    BY <1>1, <1>3
  <1>5. documents[s].vectors[k].by \in Imports
    BY <1>4 DEF Vector
  <1>6. LET by == documents[s].vectors[k].by
        IN  by = documents[s].by \/ <<by, documents[s].by>> \in overtaken
    BY <1>1 DEF KnowledgeInv, VectorsAreCurrent
  <1> QED
    BY <1>1, <1>3, <1>4, <1>5, <1>6 DEF Finding

\* The search puts only such findings before the model.
LEMMA SearchKeeps ==
    ASSUME ContextInv, NEW t \in Turns, Search(t)
    PROVE  ContextInv'
  <1> DEFINE old == turn[t]
  <1>1. PICK found \in SUBSET Found :
           turn' = [turn EXCEPT ![t].pc = "memory",
                                ![t].knowledge =
                                   Guarded(found, {f \in found : TextFound(f) \in UnsafeTexts})]
    BY DEF Search
  <1> DEFINE shown == Guarded(found, {f \in found : TextFound(f) \in UnsafeTexts})
             new == [old EXCEPT !.pc = "memory", !.knowledge = shown]
  <1>2. shown \subseteq Found
    BY DEF Guarded
  <1>3. \A f \in shown : f \in Finding /\ (f.vector = f.by \/ <<f.vector, f.by>> \in overtaken)
    BY <1>2, FoundIsCurrent DEF ContextInv
  <1> HIDE DEF shown
  <1>4. old \in Turn
    BY DEF ContextInv
  <1>5. /\ new \in Turn
        /\ new.pc = "memory" /\ new.remembered = old.remembered
        /\ new.forgotten = old.forgotten
        /\ new.knowledge = shown /\ new.memory = old.memory
    BY <1>3, <1>4 DEF Turn, TurnPC
  <1>6. turn' = [turn EXCEPT ![t] = new] /\ UNCHANGED <<kvars, mvars>>
    BY <1>1 DEF Search, shown
  <1> HIDE DEF new
  <1>7. /\ new.forgotten \subseteq Deleted
        /\ \A m \in new.remembered : m \in Memories /\ remember[m] = "created"
        /\ new.memory \cap new.forgotten = {}
        /\ new.pc \notin {"new", "model", "answered"}
    BY <1>5 DEF ContextInv, HistoryHolds, ForgottenIsNotUsed
  <1> QED
    BY <1>3, <1>5, <1>6, <1>7, OneTurn

\* A memory the list leaves out is not active or has as many newer ones as the
\* limit.
LEMMA ListLeavesOut ==
    ASSUME NEW F \in SUBSET Deleted,
           NEW m \in Active(UserScope), m \notin ListActive(UserScope, MemoryLimit)
    PROVE  Cardinality(Newer(m, F)) >= MemoryLimit
  <1> DEFINE newer == {n \in Active(UserScope) : memories[n].updated_at > memories[m].updated_at}
  <1>1. newer \subseteq Newer(m, F) /\ Newer(m, F) \subseteq Memories
    BY ContextAssumption, MemoryAssumption DEF Active, Newer, Deleted
  <1>2. IsFiniteSet(Newer(m, F)) /\ IsFiniteSet(newer)
    BY <1>1, MemoryAssumption, FS_Subset
  <1>3. Cardinality(newer) \in Nat /\ Cardinality(Newer(m, F)) \in Nat
        /\ Cardinality(newer) <= Cardinality(Newer(m, F))
    BY <1>1, <1>2, FS_Subset, FS_CardinalityType
  <1>4. ~(Cardinality(newer) < MemoryLimit)
    BY DEF ListActive
  <1> QED
    BY <1>3, <1>4, ContextAssumption

\* The memories of a turn are read as one list, after everything it remembers.
LEMMA ReadKeeps ==
    ASSUME ContextInv, NEW t \in Turns, ReadMemory(t)
    PROVE  ContextInv'
  <1> DEFINE old == turn[t]
             listed == ListActive(UserScope, MemoryLimit)
             shown == Guarded(listed, UnsafeMemories)
             unsafe == listed \cap UnsafeMemories # {}
             new == [old EXCEPT !.pc = "model", !.memory = shown, !.blocked = unsafe]
  <1>1. turn' = [turn EXCEPT ![t] = new] /\ UNCHANGED <<kvars, mvars>>
    BY DEF ReadMemory
  <1>2. /\ listed \subseteq Active(UserScope) /\ shown \subseteq listed
        /\ Active(UserScope) \subseteq Memories \ Deleted
        /\ shown = listed \/ unsafe
    BY DEF ListActive, Active, Deleted, Guarded
  <1>3. \A m \in Active(UserScope) :
           m \notin listed => Cardinality(Newer(m, old.forgotten)) >= MemoryLimit
    BY ListLeavesOut DEF ContextInv, HistoryHolds
  <1>4. unsafe \in BOOLEAN
    OBVIOUS
  <1> HIDE DEF listed, shown, unsafe
  <1>5. old \in Turn
    BY DEF ContextInv
  <1>6. /\ new \in Turn
        /\ new.pc = "model" /\ new.remembered = old.remembered
        /\ new.forgotten = old.forgotten /\ new.knowledge = old.knowledge
        /\ new.memory = shown
    BY <1>2, <1>4, <1>5 DEF Turn, TurnPC
  <1>7. new.blocked = unsafe
    BY <1>5 DEF Turn
  <1> HIDE DEF new
  <1>8. /\ new.forgotten \subseteq Deleted
        /\ \A m \in new.remembered : m \in Memories /\ remember[m] = "created"
    BY <1>6 DEF ContextInv, HistoryHolds
  <1>9. \A f \in new.knowledge : f.vector = f.by \/ <<f.vector, f.by>> \in overtaken
    BY <1>6 DEF ContextInv, FoundByOwnEmbedding
  <1>10. new.memory \cap new.forgotten = {}
    BY <1>2, <1>6, <1>8
  <1>11. \A m \in new.remembered :
            \/ m \in new.memory
            \/ memories[m].scope # UserScope
            \/ memories[m].deleted
            \/ Cardinality(Newer(m, new.forgotten)) >= MemoryLimit
            \/ new.blocked
    <2> SUFFICES ASSUME NEW m \in new.remembered,
                        memories[m].scope = UserScope, ~memories[m].deleted,
                        shown = listed
                 PROVE  m \in shown \/ Cardinality(Newer(m, new.forgotten)) >= MemoryLimit
      BY <1>2, <1>6, <1>7
    <2>1. m \in Memories /\ Stored(m)
      BY <1>8 DEF ContextInv, MemoryTypeOK
    <2>2. m \in Active(UserScope)
      BY <2>1 DEF Active
    <2> QED
      BY <2>2, <1>3, <1>6
  <1> QED
    BY <1>1, <1>6, <1>8, <1>9, <1>10, <1>11, OneTurn

--------------------------------------------------------------------------------
(***************************************************************************)
(* Theorems                                                                *)
(***************************************************************************)

\* A stuttering step.
LEMMA ContextUnchanged == ContextInv /\ UNCHANGED vars => ContextInv'
  BY DEF vars, kvars, mvars, ContextInv, KnowledgeInv, KnowledgeTypeOK, SavedBy, EmbedsCurrent,
         VectorsAreCurrent, ImportedIsSearchable, TextOf, Total, MemoryTypeOK, Stored,
         HistoryHolds, Deleted, FoundByOwnEmbedding, ForgottenIsNotUsed,
         RecentMemoriesAreUsed, Newer

\* The invariant holds in every reachable state: imports, memory requests and
\* turns keep it whatever their order, and whichever of them fail or die.
THEOREM ContextInvariance == Spec => []ContextInv
  <1>1. ContextInv /\ [Next]_vars => ContextInv'
    <2> SUFFICES ASSUME ContextInv, [Next]_vars PROVE ContextInv'
      OBVIOUS
    <2>1. CASE KnowledgeNext /\ UNCHANGED <<mvars, turn>>
      BY <2>1, KnowledgeStep
    <2>2. CASE MemoryNext /\ UNCHANGED <<kvars, turn>>
      BY <2>2, MemoryStep
    <2>3. CASE \E t \in Turns : Receive(t) \/ TurnStep(t)
      BY <2>3, ReceiveKeeps, MoveKeeps, SearchKeeps, ReadKeeps DEF TurnStep
    <2>4. CASE UNCHANGED vars
      BY <2>4, ContextUnchanged
    <2> QED
      BY <2>1, <2>2, <2>3, <2>4 DEF Next
  <1> QED
    BY <1>1, ContextStarts, PTL DEF Spec

\* TypeOK: rows, imports and turns are well formed, and every document has
\* one embedding slot per chunk.
THEOREM ContextTypeCorrect == Spec => []TypeOK
  <1>1. ContextInv => TypeOK
    BY DEF ContextInv, KnowledgeInv, TypeOK
  <1> QED
    BY <1>1, ContextInvariance, PTL

\* VectorsMatch: an embedding belongs to the text of its chunk, unless an import
\* attached it that was embedding the document when this text was saved.
THEOREM VectorSafety == Spec => []VectorsMatch
  <1>1. ContextInv => VectorsMatch
    BY DEF ContextInv, KnowledgeInv, VectorsAreCurrent, VectorsMatch
  <1> QED
    BY <1>1, ContextInvariance, PTL

\* ImportedIsSearchable: a document reported as imported stays searchable in
\* all of its chunks until it is saved again.
THEOREM ImportSafety == Spec => []ImportedIsSearchable
  <1>1. ContextInv => ImportedIsSearchable
    BY DEF ContextInv, KnowledgeInv
  <1> QED
    BY <1>1, ContextInvariance, PTL

\* FoundByOwnEmbedding: the text shown to the model was found by the embeddings
\* of the import that saved it, or by those of an import that was embedding the
\* document when that text was saved; in the second case the text may be that of
\* an import that failed or died before it stored any embedding.
THEOREM SearchSafety == Spec => []FoundByOwnEmbedding
  <1>1. ContextInv => FoundByOwnEmbedding
    BY DEF ContextInv
  <1> QED
    BY <1>1, ContextInvariance, PTL

\* ForgottenIsNotUsed: a turn does not use a memory deleted before it began.
THEOREM ForgettingSafety == Spec => []ForgottenIsNotUsed
  <1>1. ContextInv => ForgottenIsNotUsed
    BY DEF ContextInv
  <1> QED
    BY <1>1, ContextInvariance, PTL

\* RecentMemoriesAreUsed: a turn uses the newest memories of the user that
\* were created before it began, up to the limit and the guard.
THEOREM RecencySafety == Spec => []RecentMemoriesAreUsed
  <1>1. ContextInv => RecentMemoriesAreUsed
    BY DEF ContextInv
  <1> QED
    BY <1>1, ContextInvariance, PTL

--------------------------------------------------------------------------------
(***************************************************************************)
(* Chunks of a text                                                        *)
(***************************************************************************)

Text == Seq(Character)

\* A text that strip leaves as it is, and that is not empty.
Trimmed(t) == t # <<>> /\ t[1] \notin Blank /\ t[Len(t)] \notin Blank

\* Strip takes blanks from both ends only.
LEMMA StripEnds ==
    ASSUME NEW t \in Text
    PROVE  \/ IsBlank(t) /\ Strip(t) = <<>>
           \/ /\ ~IsBlank(t)
              /\ \E i \in 1 .. Len(t), j \in 1 .. Len(t) :
                    /\ i <= j /\ Strip(t) = SubSeq(t, i, j)
                    /\ t[i] \notin Blank /\ t[j] \notin Blank
                    /\ \A k \in 1 .. i - 1 : t[k] \in Blank
                    /\ \A k \in j + 1 .. Len(t) : t[k] \in Blank
  <1> DEFINE Kept == {i \in DOMAIN t : t[i] \notin Blank}
  <1>1. Len(t) \in Nat /\ DOMAIN t = 1 .. Len(t)
    BY LenProperties DEF Text
  <1>2. CASE Kept = {}
    BY <1>2 DEF IsBlank, Strip
  <1>3. CASE Kept # {}
    <2>1. Kept \in SUBSET (1 .. Len(t))
      BY <1>1
    <2> DEFINE i == CHOOSE x \in Kept : \A y \in Kept : x <= y
               j == CHOOSE x \in Kept : \A y \in Kept : x >= y
    <2>2. i \in Kept /\ \A k \in Kept : i <= k
      <3>1. \E x \in Kept : \A y \in Kept : x <= y
        <4> HIDE DEF Kept
        <4> QED
          BY <1>1, <1>3, <2>1, SmallestIn
      <3> HIDE DEF Kept
      <3> QED
        BY <3>1
    <2>3. j \in Kept /\ \A k \in Kept : j >= k
      <3>1. Max(Kept) \in Kept /\ \A y \in Kept : Max(Kept) >= y
        <4> HIDE DEF Kept
        <4> QED
          BY <1>1, <1>3, <2>1, MaxIn
      <3> HIDE DEF Kept
      <3> QED
        BY <3>1
    <2>4. Strip(t) = SubSeq(t, i, j)
      BY <1>3 DEF Strip
    <2>5. ~IsBlank(t)
      BY <1>3 DEF IsBlank
    <2> HIDE DEF i, j
    <2>6. i \in 1 .. Len(t) /\ j \in 1 .. Len(t) /\ i <= j
          /\ t[i] \notin Blank /\ t[j] \notin Blank
      BY <2>1, <2>2, <2>3
    <2>7. \A k \in 1 .. i - 1 : t[k] \in Blank
      <3> SUFFICES ASSUME NEW k \in 1 .. i - 1, t[k] \notin Blank PROVE FALSE
        OBVIOUS
      <3>1. k \in DOMAIN t /\ ~(i <= k)
        BY <1>1, <2>6
      <3> QED
        BY <2>2, <3>1
    <2>8. \A k \in j + 1 .. Len(t) : t[k] \in Blank
      <3> SUFFICES ASSUME NEW k \in j + 1 .. Len(t), t[k] \notin Blank PROVE FALSE
        OBVIOUS
      <3>1. k \in DOMAIN t /\ ~(j >= k)
        BY <1>1, <2>6
      <3> QED
        BY <2>3, <3>1
    <2> QED
      BY <2>4, <2>5, <2>6, <2>7, <2>8
  <1> QED
    BY <1>2, <1>3

LEMMA StripText ==
    ASSUME NEW t \in Text
    PROVE  /\ Strip(t) \in Text
           /\ Len(Strip(t)) <= Len(t)
           /\ ~IsBlank(t) => Trimmed(Strip(t))
  <1>1. Len(t) \in Nat /\ \A i \in 1 .. Len(t) : t[i] \in Character
    BY LenProperties, ElementOfSeq DEF Text
  <1>2. CASE IsBlank(t)
    <2>1. Strip(t) = <<>>
      BY <1>2, StripEnds
    <2> QED
      BY <1>1, <1>2, <2>1, EmptySeq DEF Text
  <1>3. CASE ~IsBlank(t)
    <2>1. PICK i \in 1 .. Len(t), j \in 1 .. Len(t) :
             /\ i <= j /\ Strip(t) = SubSeq(t, i, j)
             /\ t[i] \notin Blank /\ t[j] \notin Blank
      BY <1>3, StripEnds
    <2>2. \A k \in i .. j : t[k] \in Character
      BY <1>1, <2>1
    <2>3. i \in Int /\ j \in Int
      BY <1>1
    <2>4. /\ SubSeq(t, i, j) \in Seq(Character)
          /\ Len(SubSeq(t, i, j)) = j - i + 1
          /\ \A k \in 1 .. j - i + 1 : SubSeq(t, i, j)[k] = t[i + k - 1]
      BY <2>1, <2>2, <2>3, SubSeqProperties
    <2>5. 1 \in 1 .. j - i + 1 /\ j - i + 1 \in 1 .. j - i + 1
          /\ i + 1 - 1 = i /\ i + (j - i + 1) - 1 = j /\ j - i + 1 <= Len(t)
      BY <1>1, <2>1
    <2>6. Strip(t)[1] = t[i] /\ Strip(t)[Len(Strip(t))] = t[j]
      BY <2>1, <2>4, <2>5
    <2>7. Strip(t) # <<>>
      BY <2>1, <2>3, <2>4, EmptySeq
    <2> QED
      BY <2>1, <2>4, <2>5, <2>6, <2>7 DEF Text, Trimmed
  <1> QED
    BY <1>2, <1>3

\* Strip leaves a trimmed text alone.
LEMMA TrimmedIsStripped ==
    ASSUME NEW t \in Text, Trimmed(t)
    PROVE  Strip(t) = t
  <1>1. Len(t) \in Nat \ {0} /\ DOMAIN t = 1 .. Len(t)
    BY LenProperties, EmptySeq DEF Text, Trimmed
  <1>2. 1 \in DOMAIN t /\ t[1] \notin Blank
    BY <1>1 DEF Trimmed
  <1>3. PICK i \in 1 .. Len(t), j \in 1 .. Len(t) :
           /\ Strip(t) = SubSeq(t, i, j)
           /\ \A k \in 1 .. i - 1 : t[k] \in Blank
           /\ \A k \in j + 1 .. Len(t) : t[k] \in Blank
    BY <1>2, StripEnds DEF IsBlank
  <1>4. i = 1
    BY <1>1, <1>2, <1>3
  <1>5. j = Len(t)
    <2> SUFFICES ASSUME j # Len(t) PROVE FALSE
      OBVIOUS
    <2>1. Len(t) \in j + 1 .. Len(t)
      <3>1. Len(t) \in Nat
        BY <1>1
      <3> QED
        BY <3>1
    <2> QED
      BY <1>3, <2>1 DEF Trimmed
  <1> QED
    BY <1>3, <1>4, <1>5, SubSeqFull DEF Text

LEMMA VisibleFold ==
    /\ Visible(<<>>) = <<>>
    /\ \A s \in Seq(Character) : Visible(s) \in Text
    /\ \A s \in Seq(Character), e \in Character :
          Visible(Append(s, e)) = IF e \in Blank THEN Visible(s) ELSE Append(Visible(s), e)
  <1> DEFINE step == [p \in Text \X Character |-> IF p[2] \in Blank THEN p[1] ELSE Append(p[1], p[2])]
             R == [s \in Seq(Character) |-> Visible(s)]
             Equation(g, s) ==
                g = [T \in SUBSET DOMAIN s |->
                        IF T = {} THEN <<>>
                        ELSE IF s[Max(T)] \in Blank THEN g[T \ {Max(T)}] ELSE Append(g[T \ {Max(T)}], s[Max(T)])]
  <1>1. step \in Steps(Text, Character) /\ <<>> \in Text
    BY AppendProperties, EmptySeq DEF Steps, Text
  <1>2. ASSUME NEW s \in Seq(Character)
        PROVE  \E g : IsPartialTable(g, s, Text, <<>>, step) /\ R[s] = g[DOMAIN s]
    <2>1. PICK f : IsTable(f, s, Text, <<>>, step)
      <3> HIDE DEF step
      <3> QED
        BY <1>1, FoldTable
    <2>2. \A T \in SUBSET DOMAIN s : T # {} =>
             step[<<f[T \ {Max(T)}], s[Max(T)]>>] = IF s[Max(T)] \in Blank THEN f[T \ {Max(T)}] ELSE Append(f[T \ {Max(T)}], s[Max(T)])
      BY <2>1, TablePositions DEF IsTable
    <2>3. Equation(f, s)
      <3> HIDE DEF step
      <3> QED
        BY <2>1, <2>2 DEF IsTable
    <2> DEFINE g == CHOOSE h : Equation(h, s)
    <2>4. Equation(g, s)
      <3> HIDE DEF Equation
      <3> QED
        BY <2>3
    <2>5. R[s] = g[DOMAIN s]
      BY DEF Visible, FoldLeft, MapThenFoldSet
    <2>6. IsPartialTable(g, s, Text, <<>>, step)
      <3> HIDE DEF g
      <3> QED
        BY <2>4, TablePositions DEF IsPartialTable
    <2> QED
      BY <2>5, <2>6
  <1>3. IsFold(R, Text, <<>>, Character, step)
    <2>1. R = [s \in Seq(Character) |-> R[s]]
      OBVIOUS
    <2> HIDE DEF step, R
    <2> QED
      BY <1>1, <1>2, <2>1, FoldEquations
  <1>4. \A s \in Seq(Character) : R[s] = Visible(s)
    OBVIOUS
  <1>5. \A s \in Seq(Character), e \in Character : R[s] \in Text => step[<<R[s], e>>] = IF e \in Blank THEN R[s] ELSE Append(R[s], e)
    <2> HIDE DEF R
    <2> QED
      OBVIOUS
  <1>6. <<>> \in Seq(Character) /\ \A s \in Seq(Character), e \in Character : Append(s, e) \in Seq(Character)
    BY EmptySeq, AppendProperties
  <1>7. Visible(<<>>) = <<>>
    <2> HIDE DEF step, R
    <2> QED
      BY <1>3, <1>4, <1>6 DEF IsFold
  <1>8. \A s \in Seq(Character) : Visible(s) \in Text
    <2> HIDE DEF step, R
    <2> QED
      BY <1>3, <1>4 DEF IsFold
  <1>9. ASSUME NEW s \in Seq(Character), NEW e \in Character PROVE Visible(Append(s, e)) = IF e \in Blank THEN Visible(s) ELSE Append(Visible(s), e)
    <2> HIDE DEF step, R
    <2>1. Visible(s) = R[s] /\ Visible(Append(s, e)) = R[Append(s, e)]
      BY <1>4, <1>6
    <2>2. R[s] \in Text /\ R[Append(s, e)] = step[<<R[s], e>>]
      BY <1>3 DEF IsFold
    <2> QED
      BY <1>5, <2>1, <2>2
  <1> QED
    BY <1>7, <1>8, <1>9

\* Concatenated texts show what each shows.
LEMMA VisibleConcat ==
    ASSUME NEW a \in Text, NEW b \in Text
    PROVE  Visible(a \o b) = Visible(a) \o Visible(b)
  <1> DEFINE S == {t \in Text : Visible(a \o t) = Visible(a) \o Visible(t)}
  <1>1. Visible(a) \in Text
    BY VisibleFold DEF Text
  <1>2. <<>> \in S
    <2>1. a \o <<>> = a /\ Visible(a) \o <<>> = Visible(a)
      BY <1>1, ConcatEmptySeq DEF Text
    <2> QED
      BY <2>1, VisibleFold, EmptySeq DEF Text
  <1>3. ASSUME NEW t \in Seq(Character), NEW c \in Character, t \in S
        PROVE  Append(t, c) \in S
    <2>1. a \o Append(t, c) = Append(a \o t, c)
      BY AppendToConcat DEF Text
    <2>2. a \o t \in Seq(Character)
      BY ConcatProperties DEF Text
    <2>3. Visible(a \o Append(t, c)) =
             IF c \in Blank THEN Visible(a \o t) ELSE Append(Visible(a \o t), c)
      BY <2>1, <2>2, VisibleFold
    <2>4. Visible(Append(t, c)) = IF c \in Blank THEN Visible(t) ELSE Append(Visible(t), c)
      BY VisibleFold
    <2>5. Visible(t) \in Text
      BY VisibleFold
    <2>6. Append(Visible(a) \o Visible(t), c) = Visible(a) \o Append(Visible(t), c)
      <3>1. Visible(a) \in Seq(Character) /\ Visible(t) \in Seq(Character)
        BY <1>1, <2>5 DEF Text
      <3>2. Visible(a) \o Append(Visible(t), c) = Append(Visible(a) \o Visible(t), c)
        BY ONLY <3>1, <1>3, AppendToConcat
      <3> QED
        BY <3>2
    <2>7. Append(t, c) \in Text
      BY AppendProperties DEF Text
    <2> QED
      BY <1>3, <2>3, <2>4, <2>6, <2>7
  <1>4. Seq(Character) \subseteq S
    <2> HIDE DEF S
    <2> QED
      BY <1>2, <1>3, SeqInd
  <1> QED
    BY <1>4 DEF Text

\* A blank text shows nothing.
LEMMA VisibleBlank ==
    ASSUME NEW b \in Text, IsBlank(b)
    PROVE  Visible(b) = <<>>
  <1> DEFINE S == {t \in Text : IsBlank(t) => Visible(t) = <<>>}
  <1>1. <<>> \in S
    BY VisibleFold, EmptySeq DEF Text
  <1>2. ASSUME NEW t \in Seq(Character), NEW c \in Character, t \in S
        PROVE  Append(t, c) \in S
    <2>1. Append(t, c) \in Text
      BY AppendProperties DEF Text
    <2> SUFFICES ASSUME IsBlank(Append(t, c)) PROVE Visible(Append(t, c)) = <<>>
      BY <2>1
    <2>2. /\ Len(t) \in Nat /\ Len(Append(t, c)) = Len(t) + 1
          /\ Append(t, c)[Len(t) + 1] = c
          /\ \A i \in 1 .. Len(t) : Append(t, c)[i] = t[i]
          /\ DOMAIN t = 1 .. Len(t) /\ DOMAIN Append(t, c) = 1 .. Len(Append(t, c))
      BY <2>1, AppendProperties, LenProperties DEF Text
    <2>3. c \in Blank
      BY <2>2 DEF IsBlank
    <2>4. IsBlank(t)
      BY <2>2 DEF IsBlank
    <2> QED
      BY <1>2, <2>3, <2>4, VisibleFold
  <1>3. Seq(Character) \subseteq S
    <2> HIDE DEF S
    <2> QED
      BY <1>1, <1>2, SeqInd
  <1> QED
    BY <1>3 DEF Text

\* A text is what lies before, between and after two of its positions.
LEMMA ThreeParts ==
    ASSUME NEW t \in Text, NEW i \in 1 .. Len(t), NEW j \in 1 .. Len(t), i <= j
    PROVE  /\ SubSeq(t, 1, i - 1) \in Text /\ SubSeq(t, i, j) \in Text
           /\ SubSeq(t, j + 1, Len(t)) \in Text
           /\ t = (SubSeq(t, 1, i - 1) \o SubSeq(t, i, j)) \o SubSeq(t, j + 1, Len(t))
  <1>1. Len(t) \in Nat /\ \A k \in 1 .. Len(t) : t[k] \in Character
    BY LenProperties, ElementOfSeq DEF Text
  <1>2. i - 1 \in Int /\ i \in Int /\ j \in Int /\ j + 1 \in Int /\ 1 \in Int
    BY <1>1
  <1>3. SubSeq(t, 1, i - 1) \in Text
    <2>1. \A k \in 1 .. i - 1 : t[k] \in Character
      BY <1>1
    <2> QED
      BY <1>2, <2>1, SubSeqProperties DEF Text
  <1>4. SubSeq(t, i, j) \in Text
    <2>1. \A k \in i .. j : t[k] \in Character
      BY <1>1
    <2> QED
      BY <1>2, <2>1, SubSeqProperties DEF Text
  <1>5. SubSeq(t, j + 1, Len(t)) \in Text
    <2>1. \A k \in j + 1 .. Len(t) : t[k] \in Character
      BY <1>1
    <2> QED
      BY <1>1, <1>2, <2>1, SubSeqProperties DEF Text
  <1>6. SubSeq(t, 1, i - 1) \o SubSeq(t, i, j) = SubSeq(t, 1, j)
    <2>1. 1 \in 1 .. Len(t) + 1 /\ i - 1 \in 1 - 1 .. Len(t) /\ j \in i - 1 .. Len(t)
          /\ (i - 1) + 1 = i
      BY <1>1
    <2>2. SubSeq(t, 1, i - 1) \o SubSeq(t, (i - 1) + 1, j) = SubSeq(t, 1, j)
      BY <2>1, ConcatAdjacentSubSeq DEF Text
    <2> QED
      BY <2>1, <2>2
  <1>7. SubSeq(t, 1, j) \o SubSeq(t, j + 1, Len(t)) = SubSeq(t, 1, Len(t))
    <2>1. 1 \in 1 .. Len(t) + 1 /\ j \in 1 - 1 .. Len(t) /\ Len(t) \in j .. Len(t)
      BY <1>1
    <2> QED
      BY <2>1, ConcatAdjacentSubSeq DEF Text
  <1>8. SubSeq(t, 1, Len(t)) = t
    BY SubSeqFull DEF Text
  <1> QED
    BY <1>3, <1>4, <1>5, <1>6, <1>7, <1>8

\* Strip loses nothing visible.
LEMMA VisibleStrip ==
    ASSUME NEW t \in Text
    PROVE  Visible(Strip(t)) = Visible(t)
  <1>1. CASE IsBlank(t)
    <2>1. Strip(t) = <<>>
      BY <1>1, StripEnds
    <2> QED
      BY <1>1, <2>1, VisibleBlank, VisibleFold
  <1>2. CASE ~IsBlank(t)
    <2>1. PICK i \in 1 .. Len(t), j \in 1 .. Len(t) :
             /\ i <= j /\ Strip(t) = SubSeq(t, i, j)
             /\ \A k \in 1 .. i - 1 : t[k] \in Blank
             /\ \A k \in j + 1 .. Len(t) : t[k] \in Blank
      BY <1>2, StripEnds
    <2> DEFINE a == SubSeq(t, 1, i - 1)
               b == SubSeq(t, i, j)
               c == SubSeq(t, j + 1, Len(t))
    <2>2. a \in Text /\ b \in Text /\ c \in Text /\ t = (a \o b) \o c
      BY <2>1, ThreeParts
    <2>3. Len(t) \in Nat
      BY LenProperties DEF Text
    <2>4. IsBlank(a)
      <3>1. /\ Len(a) = IF 1 <= i - 1 THEN i - 1 - 1 + 1 ELSE 0
            /\ \A k \in 1 .. i - 1 - 1 + 1 : a[k] = t[1 + k - 1]
        BY <2>1, <2>3, SubSeqProperties
      <3>2. DOMAIN a = 1 .. Len(a)
        BY <2>2, LenProperties DEF Text
      <3> HIDE DEF a
      <3> QED
        BY <2>1, <2>3, <3>1, <3>2 DEF IsBlank
    <2>5. IsBlank(c)
      <3>1. /\ Len(c) = IF j + 1 <= Len(t) THEN Len(t) - (j + 1) + 1 ELSE 0
            /\ \A k \in 1 .. Len(t) - (j + 1) + 1 : c[k] = t[(j + 1) + k - 1]
        BY <2>1, <2>3, SubSeqProperties
      <3>2. DOMAIN c = 1 .. Len(c)
        BY <2>2, LenProperties DEF Text
      <3> HIDE DEF c
      <3>3. ASSUME NEW k \in DOMAIN c PROVE c[k] \in Blank
        <4>1. k \in 1 .. Len(t) - (j + 1) + 1 /\ (j + 1) + k - 1 \in j + 1 .. Len(t)
          BY <2>1, <2>3, <3>1, <3>2
        <4> QED
          BY <2>1, <3>1, <4>1
      <3> QED
        BY <3>3 DEF IsBlank
    <2> HIDE DEF a, b, c
    <2>6. a \o b \in Text
      BY <2>2, ConcatProperties DEF Text
    <2>7. Visible(t) = (Visible(a) \o Visible(b)) \o Visible(c)
      BY <2>2, <2>6, VisibleConcat
    <2>8. Visible(a) = <<>> /\ Visible(c) = <<>>
      BY <2>2, <2>4, <2>5, VisibleBlank
    <2>9. Visible(b) \in Seq(Character)
      BY <2>2, VisibleFold DEF Text
    <2>10. Visible(t) = Visible(b)
      BY <2>7, <2>8, <2>9, ConcatEmptySeq
    <2> QED
      BY <2>1, <2>10 DEF b
  <1> QED
    BY <1>1, <1>2

\* Line ends put between texts are not visible.
LEMMA VisibleJoin ==
    ASSUME NEW a \in Text, NEW b \in Text
    PROVE  /\ JoinLines(a, b) \in Text /\ JoinParagraphs(a, b) \in Text
           /\ Visible(JoinLines(a, b)) = Visible(a) \o Visible(b)
           /\ Visible(JoinParagraphs(a, b)) = Visible(a) \o Visible(b)
  <1>1. Visible(a) \in Seq(Character)
    BY VisibleFold DEF Text
  <1>2. ASSUME NEW n \in Text, IsBlank(n)
        PROVE  /\ (a \o n) \o b \in Text
               /\ Visible((a \o n) \o b) = Visible(a) \o Visible(b)
    <2>1. a \o n \in Text /\ (a \o n) \o b \in Text
      BY ConcatProperties DEF Text
    <2>2. Visible((a \o n) \o b) = (Visible(a) \o Visible(n)) \o Visible(b)
      BY <2>1, VisibleConcat
    <2>3. Visible(n) = <<>>
      BY <1>2, VisibleBlank
    <2> QED
      BY <1>1, <2>1, <2>2, <2>3, ConcatEmptySeq
  <1>3. <<"newline">> \in Text /\ IsBlank(<<"newline">>)
    BY DEF Text, Character, Blank, IsBlank
  <1>4. <<"newline", "newline">> \in Text /\ IsBlank(<<"newline", "newline">>)
    BY DEF Text, Character, Blank, IsBlank
  <1> QED
    BY <1>2, <1>3, <1>4 DEF JoinLines, JoinParagraphs

--------------------------------------------------------------------------------
(***************************************************************************)
(* Lists of texts                                                           *)
(***************************************************************************)

\* A prefix is one element longer than the one before.
LEMMA PrefixStep ==
    ASSUME NEW E, NEW s \in Seq(E), NEW i \in 1 .. Len(s)
    PROVE  /\ SubSeq(s, 1, i - 1) \in Seq(E) /\ s[i] \in E
           /\ SubSeq(s, 1, i) = Append(SubSeq(s, 1, i - 1), s[i])
  <1>1. Len(s) \in Nat /\ \A k \in 1 .. Len(s) : s[k] \in E
    BY LenProperties, ElementOfSeq
  <1>2. SubSeq(s, 1, i - 1) \in Seq(E)
    <2>1. \A k \in 1 .. i - 1 : s[k] \in E
      BY <1>1
    <2>2. 1 \in Int /\ i - 1 \in Int
      BY <1>1
    <2> QED
      BY <2>1, <2>2, SubSeqProperties
  <1>3. SubSeq(s, 1, i) = SubSeq(s, 1, i - 1) \o <<s[i]>>
    <2>1. 1 \in 1 .. Len(s) /\ i \in 1 .. Len(s)
      BY <1>1
    <2> QED
      BY <2>1, SubSeqRecursiveSecond
  <1> QED
    BY <1>1, <1>2, <1>3, AppendIsConcat

LEMMA Flatten ==
    ASSUME NEW E
    PROVE  /\ FlattenSeq(<<>>) = <<>>
           /\ \A s \in Seq(Seq(E)) : FlattenSeq(s) \in Seq(E)
           /\ \A s \in Seq(Seq(E)), t \in Seq(E) :
                 FlattenSeq(Append(s, t)) = FlattenSeq(s) \o t
  <1> DEFINE step == [p \in Seq(E) \X Seq(E) |-> p[1] \o p[2]]
             Equation(g, s) ==
                g = [i \in 1 .. Len(s) |-> IF i = 1 THEN s[i] ELSE g[i - 1] \o s[i]]
  <1>1. step \in Steps(Seq(E), Seq(E)) /\ <<>> \in Seq(E)
    BY ConcatProperties, EmptySeq DEF Steps
  <1>2. PICK F : IsFold(F, Seq(E), <<>>, Seq(E), step)
    <2> HIDE DEF step
    <2> QED
      BY <1>1, FoldAsFunction
  <1>3. \A s \in Seq(Seq(E)), t \in Seq(E) : F[s] \in Seq(E) /\ F[Append(s, t)] = F[s] \o t
    <2>1. \A u, t \in Seq(E) : step[<<u, t>>] = u \o t
      OBVIOUS
    <2> HIDE DEF step
    <2> QED
      BY <1>2, <2>1 DEF IsFold
  <1> HIDE DEF step
  <1>4. ASSUME NEW s \in Seq(Seq(E)) PROVE FlattenSeq(s) = F[s]
    <2>1. CASE Len(s) = 0
      <3>1. s = <<>>
        BY <2>1, EmptySeq
      <3> QED
        BY <1>2, <2>1, <3>1 DEF FlattenSeq, IsFold
    <2>2. CASE Len(s) # 0
      <3> DEFINE G == [i \in 1 .. Len(s) |-> F[SubSeq(s, 1, i)]]
      <3>1. Len(s) \in Nat /\ 1 \in 1 .. Len(s) /\ Len(s) \in 1 .. Len(s)
        BY <2>2, LenProperties
      <3>2. ASSUME NEW i \in 1 .. Len(s)
            PROVE  /\ F[SubSeq(s, 1, i)] = F[SubSeq(s, 1, i - 1)] \o s[i]
                   /\ s[i] \in Seq(E)
        <4>1. /\ SubSeq(s, 1, i - 1) \in Seq(Seq(E)) /\ s[i] \in Seq(E)
              /\ SubSeq(s, 1, i) = Append(SubSeq(s, 1, i - 1), s[i])
          BY ONLY s \in Seq(Seq(E)), i \in 1 .. Len(s), PrefixStep
        <4> QED
          BY <1>3, <4>1
      <3>3. F[SubSeq(s, 1, 1)] = s[1]
        <4>1. SubSeq(s, 1, 1 - 1) = <<>>
          BY SubSeqEmpty
        <4>2. F[SubSeq(s, 1, 1 - 1)] = <<>>
          BY <1>2, <4>1 DEF IsFold
        <4>3. F[SubSeq(s, 1, 1)] = <<>> \o s[1] /\ s[1] \in Seq(E)
          BY <3>1, <3>2, <4>2
        <4> QED
          BY <4>3, ConcatEmptySeq
      <3>4. Equation(G, s)
        <4>1. ASSUME NEW i \in 1 .. Len(s)
              PROVE  G[i] = IF i = 1 THEN s[i] ELSE G[i - 1] \o s[i]
          <5>1. CASE i = 1
            BY <3>3, <5>1
          <5>2. CASE i # 1
            <6>1. i - 1 \in 1 .. Len(s)
              BY <3>1, <5>2
            <6> QED
              BY <3>2, <5>2, <6>1
          <5> QED
            BY <5>1, <5>2
        <4>2. G = [i \in 1 .. Len(s) |-> G[i]]
          OBVIOUS
        <4> HIDE DEF G
        <4> QED
          BY <4>1, <4>2
      <3> DEFINE g == CHOOSE h : Equation(h, s)
      <3>5. Equation(g, s)
        <4> HIDE DEF Equation, G
        <4> QED
          BY <3>4
      <3>6. FlattenSeq(s) = g[Len(s)]
        BY <2>2 DEF FlattenSeq
      <3> HIDE DEF g, G
      <3> DEFINE N == {i \in Nat : i \in 1 .. Len(s) => g[i] = F[SubSeq(s, 1, i)]}
      <3>7. 0 \in N
        OBVIOUS
      <3>8. ASSUME NEW i \in Nat, i \in N PROVE i + 1 \in N
        <4> SUFFICES ASSUME i + 1 \in 1 .. Len(s) PROVE g[i + 1] = F[SubSeq(s, 1, i + 1)]
          OBVIOUS
        <4>1. CASE i = 0
          BY <3>1, <3>3, <3>5, <4>1
        <4>2. CASE i # 0
          <5>1. i \in 1 .. Len(s) /\ (i + 1) - 1 = i /\ i + 1 # 1
            BY <3>1, <4>2
          <5>2. g[i] = F[SubSeq(s, 1, i)]
            BY <3>8, <5>1
          <5>3. g[i + 1] = g[i] \o s[i + 1]
            BY <3>5, <5>1
          <5>4. F[SubSeq(s, 1, i + 1)] = F[SubSeq(s, 1, i)] \o s[i + 1]
            BY <3>2, <5>1
          <5> QED
            BY <5>2, <5>3, <5>4
        <4> QED
          BY <4>1, <4>2
      <3>9. Nat \subseteq N
        <4> HIDE DEF N
        <4> QED
          BY <3>7, <3>8, NatInd
      <3>10. g[Len(s)] = F[SubSeq(s, 1, Len(s))]
        BY <3>1, <3>9
      <3> QED
        BY <3>6, <3>10, SubSeqFull
    <2> QED
      BY <2>1, <2>2
  <1>5. \A s \in Seq(Seq(E)), t \in Seq(E) : Append(s, t) \in Seq(Seq(E))
    BY AppendProperties
  <1>6. FlattenSeq(<<>>) = <<>>
    BY EmptySeq DEF FlattenSeq
  <1>7. \A s \in Seq(Seq(E)) : FlattenSeq(s) \in Seq(E)
    BY <1>3, <1>4
  <1>8. ASSUME NEW s \in Seq(Seq(E)), NEW t \in Seq(E)
        PROVE  FlattenSeq(Append(s, t)) = FlattenSeq(s) \o t
    BY <1>3, <1>4, <1>5
  <1> QED
    BY <1>6, <1>7, <1>8

\* What is visible of a list of texts.
Shows(texts) == Visible(FlattenSeq(texts))

LEMMA ShowsFold ==
    /\ Shows(<<>>) = <<>>
    /\ \A s \in Seq(Text) : FlattenSeq(s) \in Text /\ Shows(s) \in Text
    /\ \A s \in Seq(Text), t \in Text : Shows(Append(s, t)) = Shows(s) \o Visible(t)
  <1>1. \A s \in Seq(Text) : FlattenSeq(s) \in Text /\ Shows(s) \in Text
    BY Flatten, VisibleFold DEF Text, Shows
  <1>2. ASSUME NEW s \in Seq(Text), NEW t \in Text
        PROVE  Shows(Append(s, t)) = Shows(s) \o Visible(t)
    <2>1. FlattenSeq(Append(s, t)) = FlattenSeq(s) \o t
      BY Flatten DEF Text
    <2> QED
      BY <1>1, <2>1, VisibleConcat DEF Shows
  <1> QED
    BY <1>1, <1>2, Flatten, VisibleFold DEF Shows

LEMMA ShowsConcat ==
    ASSUME NEW a \in Seq(Text), NEW b \in Seq(Text)
    PROVE  Shows(a \o b) = Shows(a) \o Shows(b)
  <1> DEFINE S == {t \in Seq(Text) : Shows(a \o t) = Shows(a) \o Shows(t)}
  <1>1. <<>> \in S
    <2>1. a \o <<>> = a /\ Shows(a) \o <<>> = Shows(a)
      BY ShowsFold, ConcatEmptySeq DEF Text
    <2> QED
      BY <2>1, ShowsFold, EmptySeq
  <1>2. ASSUME NEW s \in Seq(Text), NEW t \in Text, s \in S PROVE Append(s, t) \in S
    <2>1. a \o Append(s, t) = Append(a \o s, t)
      BY AppendToConcat
    <2>2. a \o s \in Seq(Text) /\ Append(s, t) \in Seq(Text)
      BY ConcatProperties, AppendProperties
    <2>3. Shows(a \o Append(s, t)) = (Shows(a) \o Shows(s)) \o Visible(t)
      BY <1>2, <2>1, <2>2, ShowsFold
    <2>4. Shows(Append(s, t)) = Shows(s) \o Visible(t)
      BY ShowsFold
    <2>5. Shows(a) \in Seq(Character) /\ Shows(s) \in Seq(Character)
          /\ Visible(t) \in Seq(Character)
      BY ShowsFold, VisibleFold DEF Text
    <2>6. (Shows(a) \o Shows(s)) \o Visible(t) = Shows(a) \o (Shows(s) \o Visible(t))
      BY ONLY <2>5, ConcatAssociative
    <2> QED
      BY <2>2, <2>3, <2>4, <2>6
  <1>3. Seq(Text) \subseteq S
    <2> HIDE DEF S
    <2> QED
      BY <1>1, <1>2, SeqInd
  <1> QED
    BY <1>3

--------------------------------------------------------------------------------
(***************************************************************************)
(* Lines and paragraphs of a text                                           *)
(***************************************************************************)

\* Lists that always have a last text to extend.
Lists == Seq(Text) \ {<<>>}

LEMMA ListsGrow ==
    ASSUME NEW v \in Lists, NEW t \in Text
    PROVE  /\ Append(v, t) \in Lists
           /\ [v EXCEPT ![Len(v)] = t] \in Lists
           /\ v[Len(v)] \in Text
           /\ \E w \in Seq(Text) : /\ v = Append(w, v[Len(v)])
                                   /\ \A u \in Text : [v EXCEPT ![Len(v)] = u] = Append(w, u)
  <1>1. PICK w \in Seq(Text) : /\ v[Len(v)] \in Text
                               /\ v = Append(w, v[Len(v)])
                               /\ \A x \in Text : [v EXCEPT ![Len(v)] = x] = Append(w, x)
    BY ReplaceLast DEF Lists
  <1>2. Append(v, t) \in Lists /\ Append(w, t) \in Lists
    BY AppendProperties DEF Lists
  <1> QED
    BY <1>1, <1>2

LEMMA LinesFold ==
    /\ Lines(<<>>) = << <<>> >>
    /\ \A s \in Seq(Character) : Lines(s) \in Lists
    /\ \A s \in Seq(Character), e \in Character :
          Lines(Append(s, e)) = IF e = "newline" THEN Append(Lines(s), <<>>)
                ELSE [Lines(s) EXCEPT ![Len(Lines(s))] = Append(@, e)]
  <1> DEFINE step == [p \in Lists \X Character |-> IF p[2] = "newline" THEN Append(p[1], <<>>)
                ELSE [p[1] EXCEPT ![Len(p[1])] = Append(@, p[2])]]
             R == [s \in Seq(Character) |-> Lines(s)]
             Equation(g, s) ==
                g = [T \in SUBSET DOMAIN s |->
                        IF T = {} THEN << <<>> >>
                        ELSE IF s[Max(T)] = "newline" THEN Append(g[T \ {Max(T)}], <<>>)
                ELSE [g[T \ {Max(T)}] EXCEPT ![Len(g[T \ {Max(T)}])] = Append(@, s[Max(T)])]]
  <1>1. step \in Steps(Lists, Character) /\ << <<>> >> \in Lists
    <2>1. <<>> \in Text
      BY EmptySeq DEF Text
    <2>2. << <<>> >> \in Lists
      BY <2>1, Singleton DEF Lists
    <2>3. ASSUME NEW v \in Lists, NEW e \in Character
          PROVE  Append(v, <<>>) \in Lists /\ [v EXCEPT ![Len(v)] = Append(@, e)] \in Lists
      <3>1. Append(v[Len(v)], e) \in Text
        BY <2>1, ListsGrow, AppendProperties DEF Text
      <3> QED
        BY <2>1, <3>1, ListsGrow
    <2> QED
      BY <2>2, <2>3 DEF Steps
  <1>2. ASSUME NEW s \in Seq(Character)
        PROVE  \E g : IsPartialTable(g, s, Lists, << <<>> >>, step) /\ R[s] = g[DOMAIN s]
    <2>1. PICK f : IsTable(f, s, Lists, << <<>> >>, step)
      <3> HIDE DEF step
      <3> QED
        BY <1>1, FoldTable
    <2>2. \A T \in SUBSET DOMAIN s : T # {} =>
             step[<<f[T \ {Max(T)}], s[Max(T)]>>] = IF s[Max(T)] = "newline" THEN Append(f[T \ {Max(T)}], <<>>)
                ELSE [f[T \ {Max(T)}] EXCEPT ![Len(f[T \ {Max(T)}])] = Append(@, s[Max(T)])]
      BY <2>1, TablePositions DEF IsTable
    <2>3. Equation(f, s)
      <3> HIDE DEF step
      <3> QED
        BY <2>1, <2>2 DEF IsTable
    <2> DEFINE g == CHOOSE h : Equation(h, s)
    <2>4. Equation(g, s)
      <3> HIDE DEF Equation
      <3> QED
        BY <2>3
    <2>5. R[s] = g[DOMAIN s]
      BY DEF Lines, FoldLeft, MapThenFoldSet
    <2>6. IsPartialTable(g, s, Lists, << <<>> >>, step)
      <3> HIDE DEF g
      <3> QED
        BY <2>4, TablePositions DEF IsPartialTable
    <2> QED
      BY <2>5, <2>6
  <1>3. IsFold(R, Lists, << <<>> >>, Character, step)
    <2>1. R = [s \in Seq(Character) |-> R[s]]
      OBVIOUS
    <2> HIDE DEF step, R
    <2> QED
      BY <1>1, <1>2, <2>1, FoldEquations
  <1>4. \A s \in Seq(Character) : R[s] = Lines(s)
    OBVIOUS
  <1>5. \A s \in Seq(Character), e \in Character : R[s] \in Lists => step[<<R[s], e>>] = IF e = "newline" THEN Append(R[s], <<>>)
                ELSE [R[s] EXCEPT ![Len(R[s])] = Append(@, e)]
    <2> HIDE DEF R
    <2> QED
      OBVIOUS
  <1>6. <<>> \in Seq(Character) /\ \A s \in Seq(Character), e \in Character : Append(s, e) \in Seq(Character)
    BY EmptySeq, AppendProperties
  <1>7. Lines(<<>>) = << <<>> >>
    <2> HIDE DEF step, R
    <2> QED
      BY <1>3, <1>4, <1>6 DEF IsFold
  <1>8. \A s \in Seq(Character) : Lines(s) \in Lists
    <2> HIDE DEF step, R
    <2> QED
      BY <1>3, <1>4 DEF IsFold
  <1>9. ASSUME NEW s \in Seq(Character), NEW e \in Character PROVE Lines(Append(s, e)) = IF e = "newline" THEN Append(Lines(s), <<>>)
                ELSE [Lines(s) EXCEPT ![Len(Lines(s))] = Append(@, e)]
    <2> HIDE DEF step, R
    <2>1. Lines(s) = R[s] /\ Lines(Append(s, e)) = R[Append(s, e)]
      BY <1>4, <1>6
    <2>2. R[s] \in Lists /\ R[Append(s, e)] = step[<<R[s], e>>]
      BY <1>3 DEF IsFold
    <2> QED
      BY <1>5, <2>1, <2>2
  <1> QED
    BY <1>7, <1>8, <1>9

LEMMA GroupsFold ==
    /\ Groups(<<>>) = << <<>> >>
    /\ \A s \in Seq(Text) : Groups(s) \in Lists
    /\ \A s \in Seq(Text), e \in Text :
          Groups(Append(s, e)) = IF e = <<>> THEN Append(Groups(s), <<>>)
                ELSE [Groups(s) EXCEPT ![Len(Groups(s))] = JoinLines(@, e)]
  <1> DEFINE step == [p \in Lists \X Text |-> IF p[2] = <<>> THEN Append(p[1], <<>>)
                ELSE [p[1] EXCEPT ![Len(p[1])] = JoinLines(@, p[2])]]
             R == [s \in Seq(Text) |-> Groups(s)]
             Equation(g, s) ==
                g = [T \in SUBSET DOMAIN s |->
                        IF T = {} THEN << <<>> >>
                        ELSE IF s[Max(T)] = <<>> THEN Append(g[T \ {Max(T)}], <<>>)
                ELSE [g[T \ {Max(T)}] EXCEPT ![Len(g[T \ {Max(T)}])] = JoinLines(@, s[Max(T)])]]
  <1>1. step \in Steps(Lists, Text) /\ << <<>> >> \in Lists
    <2>1. <<>> \in Text
      BY EmptySeq DEF Text
    <2>2. << <<>> >> \in Lists
      BY <2>1, Singleton DEF Lists
    <2>3. ASSUME NEW v \in Lists, NEW e \in Text
          PROVE  Append(v, <<>>) \in Lists /\ [v EXCEPT ![Len(v)] = JoinLines(@, e)] \in Lists
      <3>1. JoinLines(v[Len(v)], e) \in Text
        BY <2>1, ListsGrow, VisibleJoin
      <3> QED
        BY <2>1, <3>1, ListsGrow
    <2> QED
      BY <2>2, <2>3 DEF Steps
  <1>2. ASSUME NEW s \in Seq(Text)
        PROVE  \E g : IsPartialTable(g, s, Lists, << <<>> >>, step) /\ R[s] = g[DOMAIN s]
    <2>1. PICK f : IsTable(f, s, Lists, << <<>> >>, step)
      <3> HIDE DEF step
      <3> QED
        BY <1>1, FoldTable
    <2>2. \A T \in SUBSET DOMAIN s : T # {} =>
             step[<<f[T \ {Max(T)}], s[Max(T)]>>] = IF s[Max(T)] = <<>> THEN Append(f[T \ {Max(T)}], <<>>)
                ELSE [f[T \ {Max(T)}] EXCEPT ![Len(f[T \ {Max(T)}])] = JoinLines(@, s[Max(T)])]
      BY <2>1, TablePositions DEF IsTable
    <2>3. Equation(f, s)
      <3> HIDE DEF step
      <3> QED
        BY <2>1, <2>2 DEF IsTable
    <2> DEFINE g == CHOOSE h : Equation(h, s)
    <2>4. Equation(g, s)
      <3> HIDE DEF Equation
      <3> QED
        BY <2>3
    <2>5. R[s] = g[DOMAIN s]
      BY DEF Groups, FoldLeft, MapThenFoldSet
    <2>6. IsPartialTable(g, s, Lists, << <<>> >>, step)
      <3> HIDE DEF g
      <3> QED
        BY <2>4, TablePositions DEF IsPartialTable
    <2> QED
      BY <2>5, <2>6
  <1>3. IsFold(R, Lists, << <<>> >>, Text, step)
    <2>1. R = [s \in Seq(Text) |-> R[s]]
      OBVIOUS
    <2> HIDE DEF step, R
    <2> QED
      BY <1>1, <1>2, <2>1, FoldEquations
  <1>4. \A s \in Seq(Text) : R[s] = Groups(s)
    OBVIOUS
  <1>5. \A s \in Seq(Text), e \in Text : R[s] \in Lists => step[<<R[s], e>>] = IF e = <<>> THEN Append(R[s], <<>>)
                ELSE [R[s] EXCEPT ![Len(R[s])] = JoinLines(@, e)]
    <2> HIDE DEF R
    <2> QED
      OBVIOUS
  <1>6. <<>> \in Seq(Text) /\ \A s \in Seq(Text), e \in Text : Append(s, e) \in Seq(Text)
    BY EmptySeq, AppendProperties
  <1>7. Groups(<<>>) = << <<>> >>
    <2> HIDE DEF step, R
    <2> QED
      BY <1>3, <1>4, <1>6 DEF IsFold
  <1>8. \A s \in Seq(Text) : Groups(s) \in Lists
    <2> HIDE DEF step, R
    <2> QED
      BY <1>3, <1>4 DEF IsFold
  <1>9. ASSUME NEW s \in Seq(Text), NEW e \in Text PROVE Groups(Append(s, e)) = IF e = <<>> THEN Append(Groups(s), <<>>)
                ELSE [Groups(s) EXCEPT ![Len(Groups(s))] = JoinLines(@, e)]
    <2> HIDE DEF step, R
    <2>1. Groups(s) = R[s] /\ Groups(Append(s, e)) = R[Append(s, e)]
      BY <1>4, <1>6
    <2>2. R[s] \in Lists /\ R[Append(s, e)] = step[<<R[s], e>>]
      BY <1>3 DEF IsFold
    <2> QED
      BY <1>5, <2>1, <2>2
  <1> QED
    BY <1>7, <1>8, <1>9

LEMMA StripAllFold ==
    /\ StripAll(<<>>) = <<>>
    /\ \A s \in Seq(Text) : StripAll(s) \in Seq(Text)
    /\ \A s \in Seq(Text), e \in Text :
          StripAll(Append(s, e)) = IF IsBlank(e) THEN StripAll(s) ELSE Append(StripAll(s), Strip(e))
  <1> DEFINE step == [p \in Seq(Text) \X Text |-> IF IsBlank(p[2]) THEN p[1] ELSE Append(p[1], Strip(p[2]))]
             R == [s \in Seq(Text) |-> StripAll(s)]
             Equation(g, s) ==
                g = [T \in SUBSET DOMAIN s |->
                        IF T = {} THEN <<>>
                        ELSE IF IsBlank(s[Max(T)]) THEN g[T \ {Max(T)}] ELSE Append(g[T \ {Max(T)}], Strip(s[Max(T)]))]
  <1>1. step \in Steps(Seq(Text), Text) /\ <<>> \in Seq(Text)
    BY StripText, AppendProperties, EmptySeq DEF Steps
  <1>2. ASSUME NEW s \in Seq(Text)
        PROVE  \E g : IsPartialTable(g, s, Seq(Text), <<>>, step) /\ R[s] = g[DOMAIN s]
    <2>1. PICK f : IsTable(f, s, Seq(Text), <<>>, step)
      <3> HIDE DEF step
      <3> QED
        BY <1>1, FoldTable
    <2>2. \A T \in SUBSET DOMAIN s : T # {} =>
             step[<<f[T \ {Max(T)}], s[Max(T)]>>] = IF IsBlank(s[Max(T)]) THEN f[T \ {Max(T)}] ELSE Append(f[T \ {Max(T)}], Strip(s[Max(T)]))
      BY <2>1, TablePositions DEF IsTable
    <2>3. Equation(f, s)
      <3> HIDE DEF step
      <3> QED
        BY <2>1, <2>2 DEF IsTable
    <2> DEFINE g == CHOOSE h : Equation(h, s)
    <2>4. Equation(g, s)
      <3> HIDE DEF Equation
      <3> QED
        BY <2>3
    <2>5. R[s] = g[DOMAIN s]
      BY DEF StripAll, FoldLeft, MapThenFoldSet
    <2>6. IsPartialTable(g, s, Seq(Text), <<>>, step)
      <3> HIDE DEF g
      <3> QED
        BY <2>4, TablePositions DEF IsPartialTable
    <2> QED
      BY <2>5, <2>6
  <1>3. IsFold(R, Seq(Text), <<>>, Text, step)
    <2>1. R = [s \in Seq(Text) |-> R[s]]
      OBVIOUS
    <2> HIDE DEF step, R
    <2> QED
      BY <1>1, <1>2, <2>1, FoldEquations
  <1>4. \A s \in Seq(Text) : R[s] = StripAll(s)
    OBVIOUS
  <1>5. \A s \in Seq(Text), e \in Text : R[s] \in Seq(Text) => step[<<R[s], e>>] = IF IsBlank(e) THEN R[s] ELSE Append(R[s], Strip(e))
    <2> HIDE DEF R
    <2> QED
      OBVIOUS
  <1>6. <<>> \in Seq(Text) /\ \A s \in Seq(Text), e \in Text : Append(s, e) \in Seq(Text)
    BY EmptySeq, AppendProperties
  <1>7. StripAll(<<>>) = <<>>
    <2> HIDE DEF step, R
    <2> QED
      BY <1>3, <1>4, <1>6 DEF IsFold
  <1>8. \A s \in Seq(Text) : StripAll(s) \in Seq(Text)
    <2> HIDE DEF step, R
    <2> QED
      BY <1>3, <1>4 DEF IsFold
  <1>9. ASSUME NEW s \in Seq(Text), NEW e \in Text PROVE StripAll(Append(s, e)) = IF IsBlank(e) THEN StripAll(s) ELSE Append(StripAll(s), Strip(e))
    <2> HIDE DEF step, R
    <2>1. StripAll(s) = R[s] /\ StripAll(Append(s, e)) = R[Append(s, e)]
      BY <1>4, <1>6
    <2>2. R[s] \in Seq(Text) /\ R[Append(s, e)] = step[<<R[s], e>>]
      BY <1>3 DEF IsFold
    <2> QED
      BY <1>5, <2>1, <2>2
  <1> QED
    BY <1>7, <1>8, <1>9

\* The lines of a text show what it shows.
LEMMA LinesShow ==
    ASSUME NEW t \in Text
    PROVE  Lines(t) \in Seq(Text) /\ Shows(Lines(t)) = Visible(t)
  <1> DEFINE S == {u \in Text : Shows(Lines(u)) = Visible(u)}
  <1>0. <<>> \in Text /\ Visible(<<>>) = <<>>
    BY VisibleFold, EmptySeq DEF Text
  <1>1. <<>> \in S
    <2>1. << <<>> >> = Append(<<>>, <<>>)
      OBVIOUS
    <2>2. Shows(Append(<<>>, <<>>)) = Shows(<<>>) \o Visible(<<>>)
      BY <1>0, ShowsFold, EmptySeq
    <2>3. Shows(Lines(<<>>)) = <<>> \o <<>>
      BY <1>0, <2>1, <2>2, LinesFold, ShowsFold
    <2>4. <<>> \o <<>> = <<>>
      BY <1>0, ConcatEmptySeq DEF Text
    <2> QED
      BY <1>0, <2>3, <2>4
  <1>2. ASSUME NEW u \in Seq(Character), NEW c \in Character, u \in S
        PROVE  Append(u, c) \in S
    <2>0. Append(u, c) \in Text /\ u \in Text
      BY AppendProperties DEF Text
    <2>1. Lines(u) \in Lists
      BY LinesFold
    <2>2. PICK w \in Seq(Text) :
             /\ Lines(u) = Append(w, Lines(u)[Len(Lines(u))])
             /\ \A x \in Text : [Lines(u) EXCEPT ![Len(Lines(u))] = x] = Append(w, x)
      BY <1>0, <2>1, ListsGrow
    <2> DEFINE l == Lines(u)[Len(Lines(u))]
    <2>3. l \in Text /\ Append(l, c) \in Text
      BY <1>0, <2>1, ListsGrow, AppendProperties DEF Text
    <2>4. CASE c = "newline"
      <3>1. Shows(Append(Lines(u), <<>>)) = Shows(Lines(u)) \o <<>>
        BY <1>0, <2>1, ShowsFold DEF Lists
      <3>2. Shows(Lines(u)) \in Seq(Character)
        BY <2>1, ShowsFold DEF Lists, Text
      <3>3. Visible(Append(u, c)) = Visible(u)
        BY <2>4, VisibleFold DEF Blank
      <3>4. Lines(Append(u, c)) = Append(Lines(u), <<>>)
        BY <2>4, LinesFold
      <3> QED
        BY <1>2, <2>0, <3>1, <3>2, <3>3, <3>4, ConcatEmptySeq
    <2>5. CASE c # "newline"
      <3>1. Lines(Append(u, c)) = Append(w, Append(l, c))
        BY <2>2, <2>3, <2>5, LinesFold
      <3>2. /\ Shows(Append(w, Append(l, c))) = Shows(w) \o Visible(Append(l, c))
            /\ Shows(Append(w, l)) = Shows(w) \o Visible(l)
        BY <2>3, ShowsFold
      <3>3. /\ Visible(Append(l, c)) = IF c \in Blank THEN Visible(l) ELSE Append(Visible(l), c)
            /\ Visible(Append(u, c)) = IF c \in Blank THEN Visible(u) ELSE Append(Visible(u), c)
        BY <2>3, VisibleFold DEF Text
      <3>4. Shows(w) \in Seq(Character) /\ Visible(l) \in Seq(Character)
        BY <2>3, ShowsFold, VisibleFold DEF Text
      <3>5. Shows(w) \o Append(Visible(l), c) = Append(Shows(w) \o Visible(l), c)
        BY ONLY <3>4, c \in Character, AppendToConcat
      <3>6. Shows(w) \o Visible(l) = Visible(u)
        BY <1>2, <2>2, <3>2
      <3> HIDE DEF l
      <3> QED
        BY <2>0, <3>1, <3>2, <3>3, <3>5, <3>6
    <2> QED
      BY <2>4, <2>5
  <1>3. Seq(Character) \subseteq S
    <2> HIDE DEF S
    <2> QED
      BY <1>1, <1>2, SeqInd
  <1>4. Lines(t) \in Seq(Text)
    BY LinesFold DEF Text, Lists
  <1> QED
    BY <1>3, <1>4 DEF Text

\* So do the groups of lines between empty ones.
LEMMA GroupsShow ==
    ASSUME NEW s \in Seq(Text)
    PROVE  Groups(s) \in Seq(Text) /\ Shows(Groups(s)) = Shows(s)
  <1> DEFINE S == {u \in Seq(Text) : Shows(Groups(u)) = Shows(u)}
  <1>0. <<>> \in Text /\ Visible(<<>>) = <<>>
    BY VisibleFold, EmptySeq DEF Text
  <1>1. <<>> \in S
    <2>1. << <<>> >> = Append(<<>>, <<>>)
      OBVIOUS
    <2>2. Shows(Append(<<>>, <<>>)) = Shows(<<>>) \o Visible(<<>>)
      BY <1>0, ShowsFold, EmptySeq
    <2>3. Shows(Groups(<<>>)) = <<>> \o <<>>
      BY <1>0, <2>1, <2>2, GroupsFold, ShowsFold
    <2>4. <<>> \o <<>> = <<>>
      BY <1>0, ConcatEmptySeq DEF Text
    <2>5. <<>> \in Seq(Text)
      BY EmptySeq
    <2> QED
      BY <2>3, <2>4, <2>5, ShowsFold
  <1>2. ASSUME NEW u \in Seq(Text), NEW e \in Text, u \in S
        PROVE  Append(u, e) \in S
    <2>0. Append(u, e) \in Seq(Text)
      BY AppendProperties
    <2>1. Groups(u) \in Lists /\ Shows(Groups(u)) = Shows(u)
      BY <1>2, GroupsFold
    <2>2. PICK w \in Seq(Text) :
             /\ Groups(u) = Append(w, Groups(u)[Len(Groups(u))])
             /\ \A x \in Text : [Groups(u) EXCEPT ![Len(Groups(u))] = x] = Append(w, x)
      BY <1>0, <2>1, ListsGrow
    <2> DEFINE l == Groups(u)[Len(Groups(u))]
    <2>3. l \in Text /\ JoinLines(l, e) \in Text
          /\ Visible(JoinLines(l, e)) = Visible(l) \o Visible(e)
      BY <1>0, <2>1, ListsGrow, VisibleJoin
    <2>4. Shows(Append(u, e)) = Shows(u) \o Visible(e)
      BY ShowsFold
    <2>5. CASE e = <<>>
      <3>1. Shows(Append(Groups(u), <<>>)) = Shows(Groups(u)) \o Visible(<<>>)
        BY <1>0, <2>1, ShowsFold DEF Lists
      <3>2. Groups(Append(u, e)) = Append(Groups(u), <<>>)
        BY <2>5, GroupsFold
      <3> QED
        BY <2>0, <2>1, <2>4, <2>5, <3>1, <3>2
    <2>6. CASE e # <<>>
      <3>1. Groups(Append(u, e)) = Append(w, JoinLines(l, e))
        BY <2>2, <2>3, <2>6, GroupsFold
      <3>2. /\ Shows(Append(w, JoinLines(l, e))) = Shows(w) \o Visible(JoinLines(l, e))
            /\ Shows(Append(w, l)) = Shows(w) \o Visible(l)
        BY <2>3, ShowsFold
      <3>3. Shows(w) \in Seq(Character) /\ Visible(l) \in Seq(Character)
            /\ Visible(e) \in Seq(Character)
        BY <2>3, ShowsFold, VisibleFold DEF Text
      <3>4. (Shows(w) \o Visible(l)) \o Visible(e) = Shows(w) \o (Visible(l) \o Visible(e))
        BY ONLY <3>3, ConcatAssociative
      <3>5. Shows(w) \o Visible(l) = Shows(u)
        BY <2>1, <2>2, <3>2
      <3> HIDE DEF l
      <3> QED
        BY <2>0, <2>3, <2>4, <3>1, <3>2, <3>4, <3>5
    <2> QED
      BY <2>5, <2>6
  <1>3. Seq(Text) \subseteq S
    <2> HIDE DEF S
    <2> QED
      BY <1>1, <1>2, SeqInd
  <1>4. Groups(s) \in Seq(Text)
    BY GroupsFold DEF Lists
  <1> QED
    BY <1>3, <1>4

\* Texts of at most n characters, and those of them that are trimmed.
Short(n) == {t \in Text : Len(t) <= n}
Pieces(n) == {t \in Text : Trimmed(t) /\ Len(t) <= n}

LEMMA StripAllShows ==
    ASSUME NEW s \in Seq(Text)
    PROVE  StripAll(s) \in Seq({t \in Text : Trimmed(t)}) /\ Shows(StripAll(s)) = Shows(s)
  <1> DEFINE P == {t \in Text : Trimmed(t)}
             S == {u \in Seq(Text) : StripAll(u) \in Seq(P) /\ Shows(StripAll(u)) = Shows(u)}
  <1>1. <<>> \in S
    BY StripAllFold, EmptySeq
  <1>2. ASSUME NEW u \in Seq(Text), NEW e \in Text, u \in S
        PROVE  Append(u, e) \in S
    <2>0. Append(u, e) \in Seq(Text)
      BY AppendProperties
    <2>1. StripAll(u) \in Seq(P) /\ StripAll(u) \in Seq(Text) /\ Shows(StripAll(u)) = Shows(u)
      BY <1>2, StripAllFold
    <2>2. StripAll(Append(u, e)) = IF IsBlank(e) THEN StripAll(u) ELSE Append(StripAll(u), Strip(e))
      BY StripAllFold
    <2>3. Shows(Append(u, e)) = Shows(u) \o Visible(e)
      BY ShowsFold
    <2>4. CASE IsBlank(e)
      <3>1. Visible(e) = <<>> /\ Shows(u) \in Seq(Character)
        BY <2>4, VisibleBlank, ShowsFold DEF Text
      <3>2. Shows(u) \o Visible(e) = Shows(u)
        BY <3>1, ConcatEmptySeq
      <3> QED
        BY <2>0, <2>1, <2>2, <2>3, <2>4, <3>2
    <2>5. CASE ~IsBlank(e)
      <3>1. Strip(e) \in P /\ Strip(e) \in Text
        BY <2>5, StripText
      <3>2. Append(StripAll(u), Strip(e)) \in Seq(P)
        BY <2>1, <3>1, AppendProperties
      <3>3. Shows(Append(StripAll(u), Strip(e))) = Shows(u) \o Visible(Strip(e))
        BY <2>1, <3>1, ShowsFold
      <3>4. Visible(Strip(e)) = Visible(e)
        BY VisibleStrip
      <3> HIDE DEF P
      <3> QED
        BY <2>0, <2>2, <2>3, <2>5, <3>2, <3>3, <3>4
    <2> QED
      BY <2>4, <2>5
  <1>3. Seq(Text) \subseteq S
    <2> HIDE DEF S
    <2> QED
      BY <1>1, <1>2, SeqInd
  <1> QED
    BY <1>3

LEMMA StripAllPieces ==
    ASSUME NEW n \in Nat, NEW s \in Seq(Short(n))
    PROVE  StripAll(s) \in Seq(Pieces(n))
  <1> DEFINE S == {u \in Seq(Short(n)) : StripAll(u) \in Seq(Pieces(n))}
  <1>0. Short(n) \subseteq Text
    BY DEF Short
  <1>1. <<>> \in S
    BY StripAllFold, EmptySeq
  <1>2. ASSUME NEW u \in Seq(Short(n)), NEW e \in Short(n), u \in S
        PROVE  Append(u, e) \in S
    <2>1. Append(u, e) \in Seq(Short(n)) /\ u \in Seq(Text) /\ e \in Text
      BY <1>0, AppendProperties, SeqMonotonic
    <2>2. StripAll(Append(u, e)) = IF IsBlank(e) THEN StripAll(u) ELSE Append(StripAll(u), Strip(e))
      BY <2>1, StripAllFold
    <2>3. ASSUME ~IsBlank(e) PROVE Strip(e) \in Pieces(n)
      <3>1. Strip(e) \in Text /\ Len(Strip(e)) <= Len(e) /\ Trimmed(Strip(e))
        BY <2>1, <2>3, StripText
      <3>2. Len(e) <= n /\ Len(e) \in Nat /\ Len(Strip(e)) \in Nat
        BY <2>1, <3>1, LenProperties DEF Short, Text
      <3> QED
        BY <3>1, <3>2 DEF Pieces
    <2> QED
      BY <1>2, <2>1, <2>2, <2>3, AppendProperties
  <1>3. Seq(Short(n)) \subseteq S
    <2> HIDE DEF S
    <2> QED
      BY <1>1, <1>2, SeqInd
  <1> QED
    BY <1>3

--------------------------------------------------------------------------------
(***************************************************************************)
(* A long paragraph                                                         *)
(***************************************************************************)

LEMMA Division ==
    ASSUME NEW x \in Nat, NEW m \in Nat \ {0}
    PROVE  /\ x \div m \in Nat
           /\ (x \div m) * m <= x
           /\ x < (x \div m) * m + m
  BY Z3

LEMMA ProductGrows ==
    ASSUME NEW i \in Nat, NEW j \in Nat, NEW m \in Nat, i <= j
    PROVE  i * m <= j * m /\ i * m \in Nat
  OBVIOUS

LEMMA ProductStep ==
    ASSUME NEW i \in Int, NEW m \in Nat
    PROVE  i * m = (i - 1) * m + m /\ i * m \in Int /\ (i - 1) * m \in Int
  OBVIOUS

\* The pieces _split_long_text cuts are short and make up the text.
LEMMA LongTextPieces ==
    ASSUME NEW t \in Text, t # <<>>
    PROVE  \E s \in Seq(Short(MaxCharacters)) :
              FlattenSeq(s) = t /\ SplitLongText(t) = StripAll(s)
  <1> DEFINE M == MaxCharacters
             L == Len(t)
             count == (L + M - 1) \div M
             last(k) == IF k = count THEN L ELSE k * M
             piece(k) == SubSeq(t, (k - 1) * M + 1, last(k))
             s == [k \in 1 .. count |-> piece(k)]
  <1>1. M \in Nat \ {0} /\ L \in Nat \ {0} /\ t \in Seq(Character)
    BY ChunkingAssumption, LenProperties, EmptySeq DEF Text
  <1>2. L + M - 1 \in Nat
    BY <1>1
  <1>3. /\ count \in Nat
        /\ count * M <= L + M - 1
        /\ L + M - 1 < count * M + M
    <2> HIDE DEF M, L
    <2> QED
      BY <1>1, <1>2, Division
  <1> HIDE DEF M, L, count
  <1>4. count # 0
    <2> SUFFICES ASSUME count = 0 PROVE FALSE
      OBVIOUS
    <2>1. count * M = 0
      BY <1>1
    <2> QED
      BY <1>1, <1>3, <2>1
  <1>5. ASSUME NEW k \in 1 .. count
        PROVE  /\ (k - 1) * M \in Nat /\ (k - 1) * M < L
               /\ last(k) \in Nat /\ (k - 1) * M <= last(k) /\ last(k) <= L
               /\ last(k) <= (k - 1) * M + M
               /\ k # count => last(k) = k * M
    <2>1. k \in Int /\ k - 1 \in Nat /\ count - 1 \in Nat /\ k - 1 <= count - 1
      BY <1>3, <1>4
    <2>2. (k - 1) * M <= (count - 1) * M /\ (k - 1) * M \in Nat
      BY <1>1, <2>1, ProductGrows
    <2>3. count * M = (count - 1) * M + M /\ k * M = (k - 1) * M + M
          /\ (count - 1) * M \in Int
      BY <1>1, <1>3, <2>1, ProductStep
    <2>4. count * M \in Int /\ k * M \in Int
      BY <1>1, <1>3, <2>1, ProductStep
    <2>5. (count - 1) * M < L /\ L <= count * M
      BY <1>1, <1>3, <2>3, <2>4
    <2>6. CASE k = count
      BY <1>1, <2>2, <2>3, <2>5, <2>6
    <2>7. CASE k # count
      <3>1. k \in Nat /\ k <= count - 1
        BY <1>3, <2>1, <2>7
      <3>2. k * M <= (count - 1) * M
        BY <1>1, <2>1, <3>1, ProductGrows
      <3> QED
        BY <1>1, <2>2, <2>3, <2>4, <2>5, <2>7, <3>2
    <2> QED
      BY <2>6, <2>7
  <1>6. ASSUME NEW k \in 1 .. count
        PROVE  /\ piece(k) \in Short(M)
               /\ SubSeq(t, 1, last(k)) = SubSeq(t, 1, (k - 1) * M) \o piece(k)
    <2> DEFINE a == (k - 1) * M
               z == last(k)
    <2>1. a \in Nat /\ a < L /\ z \in Nat /\ a <= z /\ z <= L /\ z <= a + M
      BY <1>5
    <2> HIDE DEF a, z
    <2>2. \A i \in a + 1 .. z : t[i] \in Character
      BY <1>1, <2>1, ElementOfSeq DEF L
    <2>3. /\ SubSeq(t, a + 1, z) \in Text
          /\ Len(SubSeq(t, a + 1, z)) = IF a + 1 <= z THEN z - (a + 1) + 1 ELSE 0
      <3>1. a + 1 \in Int /\ z \in Int
        BY <2>1
      <3> QED
        BY <2>2, <3>1, SubSeqProperties DEF Text
    <2>4. Len(SubSeq(t, a + 1, z)) <= M
      BY <1>1, <2>1, <2>3
    <2>5. SubSeq(t, 1, a) \o SubSeq(t, a + 1, z) = SubSeq(t, 1, z)
      <3>1. 1 \in 1 .. Len(t) + 1 /\ a \in 1 - 1 .. Len(t) /\ z \in a .. Len(t)
        BY <1>1, <2>1 DEF L
      <3> QED
        BY <1>1, <3>1, ConcatAdjacentSubSeq
    <2> QED
      BY <2>3, <2>4, <2>5 DEF Short, a, z
  <1>7. s \in Seq(Short(M)) /\ Len(s) = count /\ \A k \in 1 .. count : s[k] = piece(k)
    <2>1. s \in [1 .. count -> Short(M)]
      BY <1>6
    <2>2. \A k \in 1 .. count : s[k] = piece(k)
      OBVIOUS
    <2> HIDE DEF s
    <2> QED
      BY <1>3, <2>1, <2>2
  <1> HIDE DEF s
  <1> DEFINE N == {k \in Nat : k < count => FlattenSeq(SubSeq(s, 1, k)) = SubSeq(t, 1, k * M)}
  <1>8. Short(M) \subseteq Text /\ s \in Seq(Text)
    BY <1>7, SeqMonotonic DEF Short
  <1>9. ASSUME NEW k \in 1 .. count
        PROVE  FlattenSeq(SubSeq(s, 1, k)) = FlattenSeq(SubSeq(s, 1, k - 1)) \o piece(k)
    <2>1. /\ SubSeq(s, 1, k - 1) \in Seq(Text) /\ s[k] \in Text
          /\ SubSeq(s, 1, k) = Append(SubSeq(s, 1, k - 1), s[k])
      BY <1>7, <1>8, PrefixStep
    <2>2. FlattenSeq(SubSeq(s, 1, k)) = FlattenSeq(SubSeq(s, 1, k - 1)) \o s[k]
      BY <2>1, Flatten DEF Text
    <2> QED
      BY <1>7, <2>2
  <1> HIDE DEF piece, last
  <1>10. 0 \in N
    <2>1. 0 * M = 0 /\ SubSeq(s, 1, 0) = <<>> /\ SubSeq(t, 1, 0) = <<>>
      BY <1>1, SubSeqEmpty
    <2>2. FlattenSeq(SubSeq(s, 1, 0)) = SubSeq(t, 1, 0 * M)
      BY <2>1, Flatten
    <2> QED
      BY <2>2
  <1>11. ASSUME NEW k \in Nat, k \in N PROVE k + 1 \in N
    <2> SUFFICES ASSUME k + 1 < count
                 PROVE  FlattenSeq(SubSeq(s, 1, k + 1)) = SubSeq(t, 1, (k + 1) * M)
      OBVIOUS
    <2>1. k + 1 \in 1 .. count /\ k + 1 # count /\ (k + 1) - 1 = k /\ k < count
      BY <1>3
    <2>2. FlattenSeq(SubSeq(s, 1, k)) = SubSeq(t, 1, k * M)
      BY <1>11, <2>1
    <2>3. FlattenSeq(SubSeq(s, 1, k + 1)) = FlattenSeq(SubSeq(s, 1, (k + 1) - 1)) \o piece(k + 1)
      BY <1>9, <2>1
    <2>4. SubSeq(t, 1, last(k + 1)) = SubSeq(t, 1, ((k + 1) - 1) * M) \o piece(k + 1)
      BY <1>6, <2>1
    <2>5. last(k + 1) = (k + 1) * M
      BY <1>5, <2>1
    <2> QED
      BY <2>1, <2>2, <2>3, <2>4, <2>5
  <1>12. Nat \subseteq N
    <2> HIDE DEF N
    <2> QED
      BY <1>10, <1>11, NatInd
  <1>13. FlattenSeq(s) = t
    <2>1. count \in 1 .. count /\ count - 1 \in Nat /\ count - 1 < count
      BY <1>3, <1>4
    <2>2. FlattenSeq(SubSeq(s, 1, count - 1)) = SubSeq(t, 1, (count - 1) * M)
      BY <1>12, <2>1
    <2>3. FlattenSeq(SubSeq(s, 1, count)) = SubSeq(t, 1, last(count))
      BY <1>6, <1>9, <2>1, <2>2
    <2>4. last(count) = L
      BY DEF last
    <2>5. SubSeq(s, 1, count) = s /\ SubSeq(t, 1, L) = t
      BY <1>1, <1>7, SubSeqFull DEF L
    <2> QED
      BY <2>3, <2>4, <2>5
  <1>14. SplitLongText(t) = StripAll(s)
    BY DEF SplitLongText, s, piece, last, count, L, M
  <1> QED
    BY <1>7, <1>13, <1>14 DEF M

LEMMA LongTextShows ==
    ASSUME NEW t \in Text, t # <<>>
    PROVE  /\ SplitLongText(t) \in Seq(Pieces(MaxCharacters))
           /\ Shows(SplitLongText(t)) = Visible(t)
  <1>1. PICK s \in Seq(Short(MaxCharacters)) :
           FlattenSeq(s) = t /\ SplitLongText(t) = StripAll(s)
    BY LongTextPieces
  <1>2. MaxCharacters \in Nat
    BY ChunkingAssumption
  <1>3. s \in Seq(Text)
    BY SeqMonotonic DEF Short
  <1>4. Shows(StripAll(s)) = Shows(s)
    BY <1>3, StripAllShows
  <1> QED
    BY <1>1, <1>2, <1>4, StripAllPieces DEF Shows

--------------------------------------------------------------------------------
(***************************************************************************)
(* The chunks of a section                                                  *)
(***************************************************************************)

Paragraph == {t \in Text : Trimmed(t)}
Chunk == Pieces(MaxCharacters)

\* Between two paragraphs: the chunks made so far and the one being filled.
SplitState == [chunks : Seq(Chunk), current : Chunk \cup {<<>>}]

Shown2(split) == Shows(split.chunks) \o Visible(split.current)

\* Two trimmed texts joined are trimmed.
LEMMA JoinTrimmed ==
    ASSUME NEW a \in Paragraph, NEW p \in Paragraph
    PROVE  JoinParagraphs(a, p) \in Paragraph
  <1> DEFINE n == <<"newline", "newline">>
             j == (a \o n) \o p
  <1>1. a \in Seq(Character) /\ p \in Seq(Character) /\ n \in Seq(Character)
        /\ a # <<>> /\ p # <<>> /\ Len(n) = 2
        /\ a[1] \notin Blank /\ p[Len(p)] \notin Blank
    BY DEF Paragraph, Text, Trimmed, Character, Blank
  <1> HIDE DEF n
  <1>2. Len(a) \in Nat \ {0} /\ Len(p) \in Nat \ {0}
    BY <1>1, EmptySeq
  <1>3. /\ a \o n \in Seq(Character) /\ Len(a \o n) = Len(a) + 2
        /\ \A i \in 1 .. Len(a) + 2 : (a \o n)[i] = IF i <= Len(a) THEN a[i] ELSE n[i - Len(a)]
    <2>1. /\ a \o n \in Seq(Character) /\ Len(a \o n) = Len(a) + Len(n)
          /\ \A i \in 1 .. Len(a) + Len(n) : (a \o n)[i] = IF i <= Len(a) THEN a[i] ELSE n[i - Len(a)]
      BY ONLY <1>1, ConcatProperties
    <2> QED
      BY <1>1, <2>1
  <1>4. /\ j \in Seq(Character) /\ Len(j) = Len(a \o n) + Len(p)
        /\ \A i \in 1 .. Len(a \o n) + Len(p) :
              j[i] = IF i <= Len(a \o n) THEN (a \o n)[i] ELSE p[i - Len(a \o n)]
    BY <1>1, <1>3, ConcatProperties
  <1> HIDE DEF j
  <1>5. j[1] = a[1]
    BY <1>2, <1>3, <1>4
  <1>6. j[Len(j)] = p[Len(p)]
    <2>1. Len(j) = Len(a) + 2 + Len(p) /\ Len(j) \in 1 .. Len(a \o n) + Len(p)
          /\ ~(Len(j) <= Len(a \o n)) /\ Len(j) - Len(a \o n) = Len(p)
      BY <1>2, <1>3, <1>4
    <2> QED
      BY <1>4, <2>1
  <1>7. j # <<>>
    BY <1>2, <1>3, <1>4, EmptySeq
  <1> QED
    BY <1>1, <1>4, <1>5, <1>6, <1>7 DEF Paragraph, Text, Trimmed, JoinParagraphs, j, n

LEMMA FlushKeeps ==
    ASSUME NEW split \in SplitState
    PROVE  Flush(split) \in Seq(Chunk) /\ Shows(Flush(split)) = Shown2(split)
  <1>1. split.chunks \in Seq(Chunk) /\ split.current \in Chunk \cup {<<>>}
    BY DEF SplitState
  <1>2. Chunk \subseteq Text /\ split.chunks \in Seq(Text) /\ <<>> \notin Chunk
    BY <1>1, SeqMonotonic DEF Chunk, Pieces, Trimmed
  <1>3. Shows(split.chunks) \in Seq(Character)
    BY <1>2, ShowsFold DEF Text
  <1>4. CASE split.current = <<>>
    <2>1. Visible(split.current) = <<>>
      BY <1>4, VisibleFold
    <2> QED
      BY <1>1, <1>3, <1>4, <2>1, ConcatEmptySeq DEF Flush, Shown2
  <1>5. CASE split.current # <<>>
    <2>1. split.current \in Chunk /\ split.current \in Text
      BY <1>1, <1>2, <1>5
    <2> QED
      BY <1>1, <1>2, <1>5, <2>1, ShowsFold, AppendProperties DEF Flush, Shown2
  <1> QED
    BY <1>4, <1>5

\* One turn of the loop of _split_text keeps what is visible, in its order.
LEMMA AddParagraphKeeps ==
    ASSUME NEW split \in SplitState, NEW p \in Paragraph
    PROVE  /\ AddParagraph(split, p) \in SplitState
           /\ Shown2(AddParagraph(split, p)) = Shown2(split) \o Visible(p)
  <1>1. split.chunks \in Seq(Chunk) /\ split.current \in Chunk \cup {<<>>}
    BY DEF SplitState
  <1>2. Chunk \subseteq Text /\ Chunk \subseteq Paragraph /\ split.chunks \in Seq(Text)
        /\ <<>> \notin Chunk /\ <<>> \notin Paragraph /\ p \in Text
    BY <1>1, SeqMonotonic DEF Chunk, Pieces, Trimmed, Paragraph
  <1>3. Len(p) \in Nat /\ MaxCharacters \in Nat
    BY <1>2, LenProperties, ChunkingAssumption DEF Text
  <1>4. Flush(split) \in Seq(Chunk) /\ Flush(split) \in Seq(Text)
        /\ Shows(Flush(split)) = Shown2(split)
    BY <1>2, FlushKeeps, SeqMonotonic
  <1>5. Shown2(split) \in Seq(Character) /\ Visible(p) \in Seq(Character)
    BY <1>2, <1>4, ShowsFold, VisibleFold DEF Text
  <1>6. <<>> \in Chunk \cup {<<>>} /\ Visible(<<>>) = <<>>
    BY VisibleFold
  <1>7. CASE Len(p) > MaxCharacters
    <2>1. AddParagraph(split, p) = [chunks |-> Flush(split) \o SplitLongText(p), current |-> <<>>]
      BY <1>3, <1>7 DEF AddParagraph
    <2>2. SplitLongText(p) \in Seq(Chunk) /\ Shows(SplitLongText(p)) = Visible(p)
      BY <1>2, LongTextShows DEF Chunk
    <2>3. SplitLongText(p) \in Seq(Text) /\ Flush(split) \o SplitLongText(p) \in Seq(Chunk)
      BY <1>2, <1>4, <2>2, SeqMonotonic, ConcatProperties
    <2>4. Shows(Flush(split) \o SplitLongText(p)) = Shown2(split) \o Visible(p)
      BY <1>4, <2>2, <2>3, ShowsConcat
    <2>5. Shown2(split) \o Visible(p) \in Seq(Character)
      BY <1>5, ConcatProperties
    <2>6. /\ AddParagraph(split, p) \in SplitState
          /\ AddParagraph(split, p).chunks = Flush(split) \o SplitLongText(p)
          /\ AddParagraph(split, p).current = <<>>
      BY <1>6, <2>1, <2>3 DEF SplitState
    <2>7. Shown2(AddParagraph(split, p)) =
             Shows(AddParagraph(split, p).chunks) \o Visible(AddParagraph(split, p).current)
      BY DEF Shown2
    <2>8. Shown2(AddParagraph(split, p)) = (Shown2(split) \o Visible(p)) \o <<>>
      BY <1>6, <2>4, <2>6, <2>7
    <2> QED
      BY <2>5, <2>6, <2>8, ConcatEmptySeq
  <1>8. CASE Len(p) <= MaxCharacters /\ Len(Extended(split, p)) <= MaxCharacters
    <2>1. AddParagraph(split, p) = [split EXCEPT !.current = Extended(split, p)]
      BY <1>3, <1>8 DEF AddParagraph
    <2>2. Extended(split, p) \in Paragraph
          /\ Visible(Extended(split, p)) = Visible(split.current) \o Visible(p)
      <3>1. CASE split.current = <<>>
        BY <1>5, <1>6, <3>1, ConcatEmptySeq DEF Extended
      <3>2. CASE split.current # <<>>
        <4>1. split.current \in Paragraph /\ split.current \in Text
          BY <1>1, <1>2, <3>2
        <4> QED
          BY <1>2, <3>2, <4>1, JoinTrimmed, VisibleJoin DEF Extended
      <3> QED
        BY <3>1, <3>2
    <2>3. Extended(split, p) \in Chunk
      BY <1>8, <2>2 DEF Chunk, Pieces, Paragraph
    <2>4. /\ AddParagraph(split, p) \in SplitState
          /\ AddParagraph(split, p).chunks = split.chunks
          /\ AddParagraph(split, p).current = Extended(split, p)
      BY <2>1, <2>3 DEF SplitState
    <2>5. Shown2(AddParagraph(split, p)) =
             Shows(split.chunks) \o (Visible(split.current) \o Visible(p))
      BY <2>2, <2>4 DEF Shown2
    <2>6. Shows(split.chunks) \in Seq(Character) /\ Visible(split.current) \in Seq(Character)
      <3>1. split.current \in Seq(Character)
        BY <1>1, <1>2, EmptySeq DEF Text
      <3> QED
        BY <1>2, <3>1, ShowsFold, VisibleFold DEF Text
    <2>7. (Shows(split.chunks) \o Visible(split.current)) \o Visible(p) =
             Shows(split.chunks) \o (Visible(split.current) \o Visible(p))
      BY ONLY <1>5, <2>6, ConcatAssociative
    <2> QED
      BY <2>4, <2>5, <2>7 DEF Shown2
  <1>9. CASE Len(p) <= MaxCharacters /\ ~(Len(Extended(split, p)) <= MaxCharacters)
    <2>1. AddParagraph(split, p) = [chunks |-> Flush(split), current |-> p]
      BY <1>3, <1>9 DEF AddParagraph
    <2>2. p \in Chunk
      BY <1>9 DEF Chunk, Pieces, Paragraph
    <2>3. /\ AddParagraph(split, p) \in SplitState
          /\ AddParagraph(split, p).chunks = Flush(split)
          /\ AddParagraph(split, p).current = p
      BY <1>4, <2>1, <2>2 DEF SplitState
    <2>4. Shown2(AddParagraph(split, p)) =
             Shows(AddParagraph(split, p).chunks) \o Visible(AddParagraph(split, p).current)
      BY DEF Shown2
    <2> QED
      BY <1>4, <2>3, <2>4
  <1> QED
    BY <1>3, <1>7, <1>8, <1>9

--------------------------------------------------------------------------------
(***************************************************************************)
(* The sections of a document                                               *)
(***************************************************************************)

Section == [done : Seq(Text), open : Text]

LEMMA AddSectionShows ==
    ASSUME NEW s \in Seq(Text), NEW t \in Text
    PROVE  /\ AddSection(s, t) \in Seq(Text)
           /\ Shows(AddSection(s, t)) = Shows(s) \o Visible(t)
  <1>1. CASE IsBlank(t)
    <2>1. Visible(t) = <<>> /\ Shows(s) \in Seq(Character)
      BY <1>1, VisibleBlank, ShowsFold DEF Text
    <2> QED
      BY <1>1, <2>1, ConcatEmptySeq DEF AddSection
  <1>2. CASE ~IsBlank(t)
    BY <1>2, ShowsFold, AppendProperties DEF AddSection
  <1> QED
    BY <1>1, <1>2

LEMMA AddLineShows ==
    ASSUME NEW found \in Section, NEW line \in Text
    PROVE  /\ AddLine(found, line) \in Section
           /\ Shows(AddLine(found, line).done) \o Visible(AddLine(found, line).open) =
                 (Shows(found.done) \o Visible(found.open)) \o Visible(line)
  <1>1. found.done \in Seq(Text) /\ found.open \in Text
    BY DEF Section
  <1>2. CASE IsHeading(line)
    <2>1. AddLine(found, line) = [done |-> AddSection(found.done, found.open), open |-> line]
      BY <1>2 DEF AddLine
    <2>2. /\ AddSection(found.done, found.open) \in Seq(Text)
          /\ Shows(AddSection(found.done, found.open)) = Shows(found.done) \o Visible(found.open)
      BY <1>1, AddSectionShows
    <2>3. /\ AddLine(found, line) \in Section
          /\ AddLine(found, line).done = AddSection(found.done, found.open)
          /\ AddLine(found, line).open = line
      BY <2>1, <2>2 DEF Section
    <2> QED
      BY <2>2, <2>3
  <1>3. CASE ~IsHeading(line)
    <2>1. AddLine(found, line) = [found EXCEPT !.open = JoinLines(found.open, line)]
      BY <1>3 DEF AddLine
    <2>2. JoinLines(found.open, line) \in Text
          /\ Visible(JoinLines(found.open, line)) = Visible(found.open) \o Visible(line)
      BY <1>1, VisibleJoin
    <2>3. /\ AddLine(found, line) \in Section
          /\ AddLine(found, line).done = found.done
          /\ AddLine(found, line).open = JoinLines(found.open, line)
      BY <2>1, <2>2 DEF Section
    <2>4. Shows(found.done) \in Seq(Character) /\ Visible(found.open) \in Seq(Character)
          /\ Visible(line) \in Seq(Character)
      BY <1>1, ShowsFold, VisibleFold DEF Text
    <2>5. (Shows(found.done) \o Visible(found.open)) \o Visible(line) =
             Shows(found.done) \o (Visible(found.open) \o Visible(line))
      BY ONLY <2>4, ConcatAssociative
    <2> QED
      BY <2>2, <2>3, <2>5
  <1> QED
    BY <1>2, <1>3

LEMMA SectionedFold ==
    /\ Sectioned(<<>>) = [done |-> <<>>, open |-> <<>>]
    /\ \A s \in Seq(Text) : Sectioned(s) \in Section
    /\ \A s \in Seq(Text), e \in Text :
          Sectioned(Append(s, e)) = AddLine(Sectioned(s), e)
  <1> DEFINE step == [p \in Section \X Text |-> AddLine(p[1], p[2])]
             R == [s \in Seq(Text) |-> Sectioned(s)]
             Equation(g, s) ==
                g = [T \in SUBSET DOMAIN s |->
                        IF T = {} THEN [done |-> <<>>, open |-> <<>>]
                        ELSE AddLine(g[T \ {Max(T)}], s[Max(T)])]
  <1>1. step \in Steps(Section, Text) /\ [done |-> <<>>, open |-> <<>>] \in Section
    BY AddLineShows, EmptySeq DEF Steps, Section, Text
  <1>2. ASSUME NEW s \in Seq(Text)
        PROVE  \E g : IsPartialTable(g, s, Section, [done |-> <<>>, open |-> <<>>], step) /\ R[s] = g[DOMAIN s]
    <2>1. PICK f : IsTable(f, s, Section, [done |-> <<>>, open |-> <<>>], step)
      <3> HIDE DEF step
      <3> QED
        BY <1>1, FoldTable
    <2>2. \A T \in SUBSET DOMAIN s : T # {} =>
             step[<<f[T \ {Max(T)}], s[Max(T)]>>] = AddLine(f[T \ {Max(T)}], s[Max(T)])
      BY <2>1, TablePositions DEF IsTable
    <2>3. Equation(f, s)
      <3> HIDE DEF step
      <3> QED
        BY <2>1, <2>2 DEF IsTable
    <2> DEFINE g == CHOOSE h : Equation(h, s)
    <2>4. Equation(g, s)
      <3> HIDE DEF Equation
      <3> QED
        BY <2>3
    <2>5. R[s] = g[DOMAIN s]
      BY DEF Sectioned, FoldLeft, MapThenFoldSet
    <2>6. IsPartialTable(g, s, Section, [done |-> <<>>, open |-> <<>>], step)
      <3> HIDE DEF g
      <3> QED
        BY <2>4, TablePositions DEF IsPartialTable
    <2> QED
      BY <2>5, <2>6
  <1>3. IsFold(R, Section, [done |-> <<>>, open |-> <<>>], Text, step)
    <2>1. R = [s \in Seq(Text) |-> R[s]]
      OBVIOUS
    <2> HIDE DEF step, R
    <2> QED
      BY <1>1, <1>2, <2>1, FoldEquations
  <1>4. \A s \in Seq(Text) : R[s] = Sectioned(s)
    OBVIOUS
  <1>5. \A s \in Seq(Text), e \in Text : R[s] \in Section => step[<<R[s], e>>] = AddLine(R[s], e)
    <2> HIDE DEF R
    <2> QED
      OBVIOUS
  <1>6. <<>> \in Seq(Text) /\ \A s \in Seq(Text), e \in Text : Append(s, e) \in Seq(Text)
    BY EmptySeq, AppendProperties
  <1>7. Sectioned(<<>>) = [done |-> <<>>, open |-> <<>>]
    <2> HIDE DEF step, R
    <2> QED
      BY <1>3, <1>4, <1>6 DEF IsFold
  <1>8. \A s \in Seq(Text) : Sectioned(s) \in Section
    <2> HIDE DEF step, R
    <2> QED
      BY <1>3, <1>4 DEF IsFold
  <1>9. ASSUME NEW s \in Seq(Text), NEW e \in Text PROVE Sectioned(Append(s, e)) = AddLine(Sectioned(s), e)
    <2> HIDE DEF step, R
    <2>1. Sectioned(s) = R[s] /\ Sectioned(Append(s, e)) = R[Append(s, e)]
      BY <1>4, <1>6
    <2>2. R[s] \in Section /\ R[Append(s, e)] = step[<<R[s], e>>]
      BY <1>3 DEF IsFold
    <2> QED
      BY <1>5, <2>1, <2>2
  <1> QED
    BY <1>7, <1>8, <1>9

LEMMA SplitFold ==
    /\ Split(<<>>) = [chunks |-> <<>>, current |-> <<>>]
    /\ \A s \in Seq(Paragraph) : Split(s) \in SplitState
    /\ \A s \in Seq(Paragraph), e \in Paragraph :
          Split(Append(s, e)) = AddParagraph(Split(s), e)
  <1> DEFINE step == [p \in SplitState \X Paragraph |-> AddParagraph(p[1], p[2])]
             R == [s \in Seq(Paragraph) |-> Split(s)]
             Equation(g, s) ==
                g = [T \in SUBSET DOMAIN s |->
                        IF T = {} THEN [chunks |-> <<>>, current |-> <<>>]
                        ELSE AddParagraph(g[T \ {Max(T)}], s[Max(T)])]
  <1>1. step \in Steps(SplitState, Paragraph) /\ [chunks |-> <<>>, current |-> <<>>] \in SplitState
    BY AddParagraphKeeps, EmptySeq DEF Steps, SplitState
  <1>2. ASSUME NEW s \in Seq(Paragraph)
        PROVE  \E g : IsPartialTable(g, s, SplitState, [chunks |-> <<>>, current |-> <<>>], step) /\ R[s] = g[DOMAIN s]
    <2>1. PICK f : IsTable(f, s, SplitState, [chunks |-> <<>>, current |-> <<>>], step)
      <3> HIDE DEF step
      <3> QED
        BY <1>1, FoldTable
    <2>2. \A T \in SUBSET DOMAIN s : T # {} =>
             step[<<f[T \ {Max(T)}], s[Max(T)]>>] = AddParagraph(f[T \ {Max(T)}], s[Max(T)])
      BY <2>1, TablePositions DEF IsTable
    <2>3. Equation(f, s)
      <3> HIDE DEF step
      <3> QED
        BY <2>1, <2>2 DEF IsTable
    <2> DEFINE g == CHOOSE h : Equation(h, s)
    <2>4. Equation(g, s)
      <3> HIDE DEF Equation
      <3> QED
        BY <2>3
    <2>5. R[s] = g[DOMAIN s]
      BY DEF Split, FoldLeft, MapThenFoldSet
    <2>6. IsPartialTable(g, s, SplitState, [chunks |-> <<>>, current |-> <<>>], step)
      <3> HIDE DEF g
      <3> QED
        BY <2>4, TablePositions DEF IsPartialTable
    <2> QED
      BY <2>5, <2>6
  <1>3. IsFold(R, SplitState, [chunks |-> <<>>, current |-> <<>>], Paragraph, step)
    <2>1. R = [s \in Seq(Paragraph) |-> R[s]]
      OBVIOUS
    <2> HIDE DEF step, R
    <2> QED
      BY <1>1, <1>2, <2>1, FoldEquations
  <1>4. \A s \in Seq(Paragraph) : R[s] = Split(s)
    OBVIOUS
  <1>5. \A s \in Seq(Paragraph), e \in Paragraph : R[s] \in SplitState => step[<<R[s], e>>] = AddParagraph(R[s], e)
    <2> HIDE DEF R
    <2> QED
      OBVIOUS
  <1>6. <<>> \in Seq(Paragraph) /\ \A s \in Seq(Paragraph), e \in Paragraph : Append(s, e) \in Seq(Paragraph)
    BY EmptySeq, AppendProperties
  <1>7. Split(<<>>) = [chunks |-> <<>>, current |-> <<>>]
    <2> HIDE DEF step, R
    <2> QED
      BY <1>3, <1>4, <1>6 DEF IsFold
  <1>8. \A s \in Seq(Paragraph) : Split(s) \in SplitState
    <2> HIDE DEF step, R
    <2> QED
      BY <1>3, <1>4 DEF IsFold
  <1>9. ASSUME NEW s \in Seq(Paragraph), NEW e \in Paragraph PROVE Split(Append(s, e)) = AddParagraph(Split(s), e)
    <2> HIDE DEF step, R
    <2>1. Split(s) = R[s] /\ Split(Append(s, e)) = R[Append(s, e)]
      BY <1>4, <1>6
    <2>2. R[s] \in SplitState /\ R[Append(s, e)] = step[<<R[s], e>>]
      BY <1>3 DEF IsFold
    <2> QED
      BY <1>5, <2>1, <2>2
  <1> QED
    BY <1>7, <1>8, <1>9

LEMMA SplitShows ==
    ASSUME NEW s \in Seq(Paragraph)
    PROVE  Split(s) \in SplitState /\ Shown2(Split(s)) = Shows(s)
  <1> DEFINE S == {u \in Seq(Paragraph) : Shown2(Split(u)) = Shows(u)}
  <1>1. <<>> \in S
    <2>1. Shown2(Split(<<>>)) = <<>> \o <<>>
      BY SplitFold, ShowsFold, VisibleFold DEF Shown2
    <2>2. <<>> \o <<>> = <<>>
      OBVIOUS
    <2> QED
      BY <2>1, <2>2, ShowsFold, EmptySeq
  <1>2. ASSUME NEW u \in Seq(Paragraph), NEW p \in Paragraph, u \in S
        PROVE  Append(u, p) \in S
    <2>1. Split(u) \in SplitState /\ Split(Append(u, p)) = AddParagraph(Split(u), p)
      BY SplitFold
    <2>2. Shown2(Split(Append(u, p))) = Shows(u) \o Visible(p)
      BY <1>2, <2>1, AddParagraphKeeps
    <2>3. u \in Seq(Text) /\ p \in Text
      BY SeqMonotonic DEF Paragraph
    <2>4. Shows(Append(u, p)) = Shows(u) \o Visible(p)
      BY <2>3, ShowsFold
    <2> QED
      BY <2>2, <2>4, AppendProperties
  <1>3. Seq(Paragraph) \subseteq S
    <2> HIDE DEF S
    <2> QED
      BY <1>1, <1>2, SeqInd
  <1> QED
    BY <1>3, SplitFold

LEMMA SplitTextShows ==
    ASSUME NEW t \in Text
    PROVE  SplitText(t) \in Seq(Chunk) /\ Shows(SplitText(t)) = Visible(t)
  <1>1. Lines(t) \in Seq(Text) /\ Shows(Lines(t)) = Visible(t)
    BY LinesShow
  <1>2. Groups(Lines(t)) \in Seq(Text) /\ Shows(Groups(Lines(t))) = Visible(t)
    BY <1>1, GroupsShow
  <1>3. Paragraphs(t) \in Seq(Paragraph) /\ Shows(Paragraphs(t)) = Visible(t)
    BY <1>2, StripAllShows DEF Paragraphs, Paragraph
  <1>4. Split(Paragraphs(t)) \in SplitState /\ Shown2(Split(Paragraphs(t))) = Visible(t)
    BY <1>3, SplitShows
  <1> QED
    BY <1>4, FlushKeeps DEF SplitText

LEMMA SectionsShow ==
    ASSUME NEW t \in Text
    PROVE  Sections(t) \in Seq(Text) /\ Shows(Sections(t)) = Visible(t)
  <1> DEFINE Seen(found) == Shows(found.done) \o Visible(found.open)
             S == {u \in Seq(Text) : Seen(Sectioned(u)) = Shows(u)}
  <1>1. <<>> \in S
    <2>1. Seen(Sectioned(<<>>)) = <<>> \o <<>>
      BY SectionedFold, ShowsFold, VisibleFold
    <2>2. <<>> \o <<>> = <<>>
      OBVIOUS
    <2> HIDE DEF Seen
    <2> QED
      BY <2>1, <2>2, ShowsFold, EmptySeq
  <1>2. ASSUME NEW u \in Seq(Text), NEW line \in Text, u \in S
        PROVE  Append(u, line) \in S
    <2>1. Sectioned(u) \in Section /\ Sectioned(Append(u, line)) = AddLine(Sectioned(u), line)
      BY SectionedFold
    <2>2. Seen(Sectioned(Append(u, line))) = Shows(u) \o Visible(line)
      BY <1>2, <2>1, AddLineShows
    <2>3. Shows(Append(u, line)) = Shows(u) \o Visible(line)
      BY ShowsFold
    <2> HIDE DEF Seen
    <2> QED
      BY <2>2, <2>3, AppendProperties
  <1>3. Seq(Text) \subseteq S
    <2> HIDE DEF S
    <2> QED
      BY <1>1, <1>2, SeqInd
  <1>4. Lines(t) \in Seq(Text) /\ Shows(Lines(t)) = Visible(t)
    BY LinesShow
  <1>5. Sectioned(Lines(t)) \in Section /\ Seen(Sectioned(Lines(t))) = Visible(t)
    BY <1>3, <1>4, SectionedFold
  <1> QED
    BY <1>5, AddSectionShows DEF Sections, Section

\* The chunks of all sections, one section after the other.
LEMMA SectionsToChunks ==
    ASSUME NEW sections \in Seq(Text), NEW s \in Seq(Seq(Chunk)), Len(s) = Len(sections),
           \A i \in 1 .. Len(s) : Shows(s[i]) = Visible(sections[i])
    PROVE  FlattenSeq(s) \in Seq(Chunk) /\ Shows(FlattenSeq(s)) = Shows(sections)
  <1> DEFINE Same(a, b) == Len(a) = Len(b) /\ \A i \in 1 .. Len(a) : Shows(a[i]) = Visible(b[i])
             S == {pair \in Seq(Seq(Chunk)) \X Seq(Text) :
                     Same(pair[1], pair[2]) => Shows(FlattenSeq(pair[1])) = Shows(pair[2])}
  <1>0. Chunk \subseteq Text
    BY DEF Chunk, Pieces
  <1>1. << <<>>, <<>> >> \in S
    BY Flatten, EmptySeq
  <1>2. ASSUME NEW a \in Seq(Seq(Chunk)), NEW b \in Seq(Text), NEW c \in Seq(Chunk), NEW t \in Text,
               <<a, b>> \in S
        PROVE  <<Append(a, c), Append(b, t)>> \in S
    <2>1. Append(a, c) \in Seq(Seq(Chunk)) /\ Append(b, t) \in Seq(Text)
      BY AppendProperties
    <2> SUFFICES ASSUME Same(Append(a, c), Append(b, t))
                 PROVE  Shows(FlattenSeq(Append(a, c))) = Shows(Append(b, t))
      BY <2>1
    <2>2. /\ Len(a) \in Nat /\ Len(b) \in Nat
          /\ Len(Append(a, c)) = Len(a) + 1 /\ Len(Append(b, t)) = Len(b) + 1
          /\ \A i \in 1 .. Len(a) : Append(a, c)[i] = a[i]
          /\ \A i \in 1 .. Len(b) : Append(b, t)[i] = b[i]
          /\ Append(a, c)[Len(a) + 1] = c /\ Append(b, t)[Len(b) + 1] = t
      BY AppendProperties, LenProperties
    <2>0. /\ Len(Append(a, c)) = Len(Append(b, t))
          /\ \A i \in 1 .. Len(Append(a, c)) : Shows(Append(a, c)[i]) = Visible(Append(b, t)[i])
      OBVIOUS
    <2>3. Len(a) = Len(b)
      <3>1. Len(Append(a, c)) = Len(Append(b, t))
        BY ONLY <2>0
      <3>2. Len(a) \in Nat /\ Len(b) \in Nat
            /\ Len(Append(a, c)) = Len(a) + 1 /\ Len(Append(b, t)) = Len(b) + 1
        BY ONLY <2>2
      <3>3. Len(a) + 1 = Len(b) + 1
        BY ONLY <3>1, <3>2
      <3> QED
        BY ONLY <3>2, <3>3
    <2>4. ASSUME NEW i \in 1 .. Len(a) PROVE Shows(a[i]) = Visible(b[i])
      <3>1. i \in 1 .. Len(Append(a, c)) /\ i \in 1 .. Len(b)
        BY <2>2, <2>3
      <3>2. Append(a, c)[i] = a[i] /\ Append(b, t)[i] = b[i]
        BY <2>2, <3>1
      <3> QED
        BY <2>0, <3>1, <3>2
    <2>5. Shows(c) = Visible(t)
      <3>1. Len(a) + 1 \in 1 .. Len(Append(a, c))
        BY <2>2
      <3> QED
        BY <2>0, <2>2, <2>3, <3>1
    <2>6. Shows(FlattenSeq(a)) = Shows(b)
      BY <1>2, <2>3, <2>4
    <2>7. FlattenSeq(Append(a, c)) = FlattenSeq(a) \o c /\ FlattenSeq(a) \in Seq(Chunk)
      BY Flatten
    <2>8. FlattenSeq(a) \in Seq(Text) /\ c \in Seq(Text)
      BY <1>0, <2>7, SeqMonotonic
    <2>9. Shows(FlattenSeq(Append(a, c))) = Shows(b) \o Visible(t)
      BY <2>5, <2>6, <2>7, <2>8, ShowsConcat
    <2> QED
      BY <2>9, ShowsFold
  <1>3. <<s, sections>> \in S
    <2> HIDE DEF S
    <2> QED
      BY <1>1, <1>2, SeqInd2
  <1>4. FlattenSeq(s) \in Seq(Chunk)
    BY Flatten
  <1> QED
    BY <1>3, <1>4

\* Any text, of any length, keeps all its visible characters in order in chunks
\* that are never empty, stripped and within the limit (ParagraphChunker.chunk).
THEOREM ChunkerKeepsText ==
    ASSUME NEW t \in Seq(Character), NEW markdown \in BOOLEAN
    PROVE  KeepsText(t, markdown)
  <1> DEFINE sections == IF markdown THEN Sections(Strip(t)) ELSE <<Strip(t)>>
             s == [i \in DOMAIN sections |-> SplitText(sections[i])]
  <1>1. Strip(t) \in Text /\ Visible(Strip(t)) = Visible(t)
    BY StripText, VisibleStrip DEF Text
  <1>2. sections \in Seq(Text) /\ Shows(sections) = Visible(t)
    <2>1. CASE markdown
      BY <1>1, <2>1, SectionsShow
    <2>2. CASE ~markdown
      <3>1. <<Strip(t)>> = Append(<<>>, Strip(t)) /\ <<>> \in Seq(Text)
        BY EmptySeq
      <3>2. Shows(<<Strip(t)>>) = <<>> \o Visible(t)
        BY <1>1, <3>1, ShowsFold
      <3>3. Visible(t) \in Seq(Character)
        BY VisibleFold DEF Text
      <3> QED
        BY <1>1, <2>2, <3>2, <3>3, ConcatEmptySeq, Singleton
    <2> QED
      BY <2>1, <2>2
  <1> HIDE DEF sections
  <1>3. DOMAIN sections = 1 .. Len(sections) /\ Len(sections) \in Nat
        /\ \A i \in 1 .. Len(sections) : sections[i] \in Text
    BY <1>2, LenProperties, ElementOfSeq
  <1>4. \A i \in 1 .. Len(sections) :
           SplitText(sections[i]) \in Seq(Chunk) /\ Shows(SplitText(sections[i])) = Visible(sections[i])
    BY <1>3, SplitTextShows
  <1>5. s \in [1 .. Len(sections) -> Seq(Chunk)]
        /\ \A i \in 1 .. Len(sections) : s[i] = SplitText(sections[i])
    BY <1>3, <1>4
  <1> HIDE DEF s
  <1>6. s \in Seq(Seq(Chunk)) /\ Len(s) = Len(sections)
    BY <1>3, <1>5
  <1>7. FlattenSeq(s) \in Seq(Chunk) /\ Shows(FlattenSeq(s)) = Visible(t)
    BY <1>2, <1>4, <1>5, <1>6, SectionsToChunks
  <1>8. Chunks(t, markdown) = FlattenSeq(s)
    BY DEF Chunks, s, sections
  <1>9. ASSUME NEW k \in DOMAIN FlattenSeq(s)
        PROVE  LET c == FlattenSeq(s)[k]
               IN  c # <<>> /\ c = Strip(c) /\ Len(c) <= MaxCharacters
    <2>1. FlattenSeq(s)[k] \in Chunk
      BY <1>7, LenProperties, ElementOfSeq
    <2> QED
      BY <2>1, TrimmedIsStripped DEF Chunk, Pieces, Trimmed
  <1> QED
    BY <1>7, <1>8, <1>9 DEF KeepsText, Shows

\* What ChunksKeepText says of the files of a run holds for any set of files.
THEOREM ChunkingSafety == Spec => []ChunksKeepText
  <1>1. ASSUME NEW text \in Documents, NEW markdown \in BOOLEAN PROVE KeepsText(text, markdown)
    BY ChunkingAssumption, ChunkerKeepsText
  <1>2. ChunksKeepText
    BY <1>1 DEF ChunksKeepText
  <1> QED
    BY <1>2, PTL

================================================================================
