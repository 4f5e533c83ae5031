------------------------------- MODULE ToolOutput -------------------------------
(***************************************************************************)
(* What the reading tools of adapters/read_tools.py return of a process    *)
(* that succeeded: bounding, the filter of ignored paths and the limit on  *)
(* results.  A line of output names a path or none, and is as long as it   *)
(* is; its path can be read once "head" characters of it are there.        *)
(***************************************************************************)
EXTENDS Integers, Sequences, FiniteSets, SequencesExt

\* Every line of git status and of ripgrep has some text.
OutputLine ==
    {line \in [path : {"none", "wanted", "ignored"}, head : Nat, length : Nat \ {0}] :
        line.head <= line.length}

CONSTANTS
    MAX_TOOL_OUTPUT_LENGTH,
    Outputs,                \* the process outputs checked
    ResultLimits            \* the values of max_results checked

ASSUME OutputAssumption ==
    /\ MAX_TOOL_OUTPUT_LENGTH \in Nat \ {0}
    /\ Outputs \subseteq Seq(OutputLine)
    /\ ResultLimits \subseteq Nat \ {0}

\* Number of characters of lines that are all followed by another one.
Extent(lines) == FoldLeft(LAMBDA n, line : n + line.length + 1, 0, lines)

\* Number of characters before line k of the joined lines.
Offset(lines, k) == Extent(SubSeq(lines, 1, k - 1))

Size(lines) == IF lines = <<>> THEN 0 ELSE Extent(lines) - 1

\* _bounded_text: the last line may be cut.
Bounded(lines) ==
    LET left(k) == MAX_TOOL_OUTPUT_LENGTH - Offset(lines, k)
    IN  [k \in 1 .. Cardinality({j \in DOMAIN lines : left(j) > 0}) |->
            [lines[k] EXCEPT !.length = IF @ <= left(k) THEN @ ELSE left(k)]]

\* should_ignore_path, for a line whose path can still be read.
Ignored(line) == line.path = "ignored" /\ line.head <= line.length

Shown(lines) ==
    FoldLeft(LAMBDA shown, line : IF Ignored(line) THEN shown ELSE Append(shown, line),
             <<>>, lines)

\* _process_tool_result; "noisy" is an error output beyond the limit.
ProcessToolResult(lines, noisy) ==
    [lines |-> Bounded(lines),
     truncated |-> noisy \/ Size(lines) > MAX_TOOL_OUTPUT_LENGTH]

\* GitStatusExecutor.execute; GitDiffExecutor returns the process result.
GitStatus(lines, noisy) ==
    LET result == ProcessToolResult(lines, noisy)
    IN  [result EXCEPT !.lines = Shown(@)]

\* Seeded defect: only the limit on results counts as truncation.
FileSearchUntold(lines, noisy, max_results) ==
    LET shown == Shown(ProcessToolResult(lines, noisy).lines)
    IN  [lines |-> SubSeq(shown, 1, IF Len(shown) < max_results THEN Len(shown) ELSE max_results),
         truncated |-> Len(shown) > max_results]

\* FileSearchExecutor.execute
FileSearch(lines, noisy, max_results) ==
    LET result == ProcessToolResult(lines, noisy)
        shown  == Shown(result.lines)
    IN  [lines |-> SubSeq(shown, 1, IF Len(shown) < max_results THEN Len(shown) ELSE max_results),
         truncated |-> result.truncated \/ Len(shown) > max_results]

\* A result that is not marked as truncated holds every line that is not
\* ignored, whole; no result is larger than its limits, and none holds a line
\* known to be of an ignored path.
HonestOutput(lines, result) ==
    /\ ~result.truncated => result.lines = Shown(lines)
    /\ Size(result.lines) <= MAX_TOOL_OUTPUT_LENGTH
    /\ result.lines = Shown(result.lines)

\* Both reading tools are honest about the output of their process.
ReadsHonestly(lines, noisy, max_results) ==
    LET found == FileSearch(lines, noisy, max_results)
    IN  /\ HonestOutput(lines, GitStatus(lines, noisy))
        /\ HonestOutput(lines, found) /\ Len(found.lines) <= max_results
================================================================================
