-------------------------------- MODULE Chunking --------------------------------
(***************************************************************************)
(* ParagraphChunker of application/knowledge.py.  A text is a sequence of  *)
(* characters, of which only blanks, line ends and the heading marker      *)
(* matter.  Titles, file names and headings kept as metadata of a chunk    *)
(* are left out.                                                           *)
(***************************************************************************)
EXTENDS Integers, Sequences, SequencesExt

Blank == {"space", "newline"}
Character == {"x", "#"} \cup Blank

IsBlank(text) == \A i \in DOMAIN text : text[i] \in Blank

CONSTANTS
    MaxCharacters,      \* ParagraphChunker.max_characters
    Documents           \* the contents checked; KnowledgeDocument refuses a blank one

ASSUME ChunkingAssumption ==
    /\ MaxCharacters \in Nat \ {0}
    /\ Documents \subseteq {text \in Seq(Character) : ~IsBlank(text)}

\* str.strip
Strip(text) ==
    LET Kept == {i \in DOMAIN text : text[i] \notin Blank}
    IN  IF Kept = {} THEN <<>>
        ELSE SubSeq(text, CHOOSE i \in Kept : \A j \in Kept : i <= j,
                          CHOOSE i \in Kept : \A j \in Kept : i >= j)

\* str.splitlines; a last empty line makes no difference here.
Lines(text) ==
    FoldLeft(LAMBDA lines, c : IF c = "newline" THEN Append(lines, <<>>)
                               ELSE [lines EXCEPT ![Len(lines)] = Append(@, c)],
             << <<>> >>, text)

\* "\n".join and "\n\n".join of two texts
JoinLines(a, b) == a \o <<"newline">> \o b
JoinParagraphs(a, b) == a \o <<"newline", "newline">> \o b

--------------------------------------------------------------------------------
(***************************************************************************)
(* Sections of a Markdown document                                         *)
(***************************************************************************)

\* _extract_markdown_heading: up to six markers, a space and a title.
IsHeading(line) ==
    LET stripped == Strip(line)
    IN  \E n \in 1 .. 6 : /\ n + 2 <= Len(stripped)
                          /\ \A i \in 1 .. n : stripped[i] = "#"
                          /\ stripped[n + 1] = "space"

AddSection(sections, text) ==
    IF IsBlank(text) THEN sections ELSE Append(sections, text)

\* The loop of _markdown_sections.
AddLine(found, line) ==
    IF IsHeading(line)
    THEN [done |-> AddSection(found.done, found.open), open |-> line]
    ELSE [found EXCEPT !.open = JoinLines(@, line)]

Sectioned(lines) == FoldLeft(AddLine, [done |-> <<>>, open |-> <<>>], lines)

\* _markdown_sections; the content of a document is never blank.
Sections(text) ==
    LET found == Sectioned(Lines(text))
    IN  AddSection(found.done, found.open)

--------------------------------------------------------------------------------
(***************************************************************************)
(* Chunks of a section                                                     *)
(***************************************************************************)

\* The texts that are not blank, stripped.
StripAll(texts) ==
    FoldLeft(LAMBDA kept, t : IF IsBlank(t) THEN kept ELSE Append(kept, Strip(t)),
             <<>>, texts)

\* The parts of text.split("\n\n"), up to blanks around them.
Groups(lines) ==
    FoldLeft(LAMBDA groups, line : IF line = <<>> THEN Append(groups, <<>>)
                                   ELSE [groups EXCEPT ![Len(groups)] = JoinLines(@, line)],
             << <<>> >>, lines)

\* The paragraphs of _split_text.
Paragraphs(text) == StripAll(Groups(Lines(text)))

\* _split_long_text
SplitLongText(text) ==
    LET count == (Len(text) + MaxCharacters - 1) \div MaxCharacters
        piece(k) == SubSeq(text, (k - 1) * MaxCharacters + 1,
                           IF k = count THEN Len(text) ELSE k * MaxCharacters)
    IN  StripAll([k \in 1 .. count |-> piece(k)])

Flush(split) == IF split.current = <<>> THEN split.chunks
                ELSE Append(split.chunks, split.current)

Extended(split, paragraph) ==
    IF split.current = <<>> THEN paragraph
    ELSE JoinParagraphs(split.current, paragraph)

\* Seeded defect: the paragraphs gathered so far are dropped before a long one.
AddParagraphUnflushed(split, paragraph) ==
    CASE Len(paragraph) > MaxCharacters ->
            [chunks |-> split.chunks \o SplitLongText(paragraph), current |-> <<>>]
      [] Len(paragraph) <= MaxCharacters /\ Len(Extended(split, paragraph)) <= MaxCharacters ->
            [split EXCEPT !.current = Extended(split, paragraph)]
      [] OTHER -> [chunks |-> Flush(split), current |-> paragraph]

\* One turn of the loop of _split_text.
AddParagraph(split, paragraph) ==
    CASE Len(paragraph) > MaxCharacters ->
            [chunks |-> Flush(split) \o SplitLongText(paragraph), current |-> <<>>]
      [] Len(paragraph) <= MaxCharacters /\ Len(Extended(split, paragraph)) <= MaxCharacters ->
            [split EXCEPT !.current = Extended(split, paragraph)]
      [] OTHER -> [chunks |-> Flush(split), current |-> paragraph]

\* _split_text
Split(paragraphs) == FoldLeft(AddParagraph, [chunks |-> <<>>, current |-> <<>>], paragraphs)

SplitText(text) == Flush(Split(Paragraphs(text)))

\* ParagraphChunker.chunk of a document, whose content is stripped.
Chunks(text, markdown) ==
    LET sections == IF markdown THEN Sections(Strip(text)) ELSE <<Strip(text)>>
    IN  FlattenSeq([i \in DOMAIN sections |-> SplitText(sections[i])])

\* What a reader of the chunks must find again: the characters that are not blank.
Visible(text) ==
    FoldLeft(LAMBDA seen, c : IF c \in Blank THEN seen ELSE Append(seen, c), <<>>, text)

\* The chunks of a file hold its visible characters in order, and none is empty,
\* too long or surrounded by blanks.
KeepsText(text, markdown) ==
    LET chunks == Chunks(text, markdown)
    IN  /\ Visible(FlattenSeq(chunks)) = Visible(text)
        /\ \A k \in DOMAIN chunks :
              /\ chunks[k] # <<>> /\ chunks[k] = Strip(chunks[k])
              /\ Len(chunks[k]) <= MaxCharacters
================================================================================
