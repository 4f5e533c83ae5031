----------------------------- MODULE MCChatContext -----------------------------
(* Chunks of at most three characters; a document of two one-character        *)
(* paragraphs has two chunks.                                                 *)
EXTENDS ChatContext

\* Texts of at most seven characters.
MCDocuments ==
    {text \in UNION {[1 .. n -> Character] : n \in 1 .. 7} : ~IsBlank(text)}

Break == <<"newline", "newline">>

MCContents == {<<"x">>, <<"#">> \o Break \o <<"x">>}

MCChunksOf == [content \in MCContents |-> Chunks(content, TRUE)]

MCChunkTexts == {<<"x">>, <<"#">>}

\* The input guard blocks one of them.
MCUnsafeTexts == {<<"#">>}

\* Bound: imports and memory requests are not mixed in one behaviour; a turn
\* reads the two in separate steps that share nothing.
Separate == \/ \A i \in Imports : import[i].pc = "new"
            \/ \A m \in Memories : remember[m] = "none"

ContextSymmetry == Permutations(Imports) \cup Permutations(Memories \ UnsafeMemories)
                    \cup Permutations(Sources)
================================================================================
