-------------------------------- MODULE FilePatch --------------------------------
(***************************************************************************)
(* FilePatchExecutor of adapters/write_tools.py: preview, approval and     *)
(* atomic replacement of one target file, while the user's editor works on *)
(* the same file and the client may die between two system calls.  A file  *)
(* content is a sequence of words; a call replaces one word by another.    *)
(***************************************************************************)
EXTENDS Integers, Sequences, FiniteSets

CONSTANTS
    Calls,          \* identifiers of file.patch calls
    Patch,          \* the old_text and new_text of each call
    Contents,       \* contents the editor saves
    MaxEdits,       \* bound on the editor's saves
    Absent          \* no file, no prepared patch

ASSUME PatchAssumption ==
    /\ MaxEdits \in Nat
    /\ \A c \in Calls : Patch[c].old \in STRING /\ Patch[c].new \in STRING
    /\ Contents \subseteq Seq(STRING)
    /\ Absent \notin Contents

\* _PreparedPatch; no value of it is Absent.
PreparedPatch == [original : Seq(STRING), updated : Seq(STRING)]

ASSUME AbsentAssumption == Absent \notin PreparedPatch

VARIABLES
    file,       \* content of the target, or Absent
    prepared,   \* FilePatchExecutor._prepared
    patch,      \* the local variable of execute, and the saves it has seen
    call,       \* progress of each call through the client
    applied,    \* how often each call replaced the target
    edits       \* number of saves so far

vars == <<file, prepared, patch, call, applied, edits>>

CallPC == {"new", "previewed", "rejected", "approved", "checked", "written",
           "applied", "succeeded", "failed", "dead"}

Init == /\ file \in Contents
        /\ prepared = [c \in Calls |-> Absent]
        /\ patch = [c \in Calls |-> Absent]
        /\ call = [c \in Calls |-> "new"]
        /\ applied = [c \in Calls |-> 0]
        /\ edits = 0

--------------------------------------------------------------------------------
(***************************************************************************)
(* Preparing a patch                                                       *)
(***************************************************************************)

\* original.count(old_text)
Occurrences(content, word) == Cardinality({i \in DOMAIN content : content[i] = word})

\* original.replace(old_text, new_text, 1)
Replaced(content, p) ==
    [i \in DOMAIN content |-> IF content[i] = p.old THEN p.new ELSE content[i]]

\* The client handles one call at a time.
InProgress == {"previewed", "approved", "checked", "written", "applied"}

Busy == \E c \in Calls : call[c] \in InProgress

Goto(c, pc) == call' = [call EXCEPT ![c] = pc]

\* _prepare_patch
Patchable(c) ==
    /\ file # Absent
    /\ Occurrences(file, Patch[c].old) = 1
    /\ Replaced(file, Patch[c]) # file

\* Seeded defect: the prepared patch is not retained.
PreviewNotRetained(c) ==
    /\ call[c] = "new" /\ ~Busy /\ Patchable(c)
    /\ Goto(c, "previewed")
    /\ UNCHANGED <<file, prepared, patch, applied, edits>>

Preview(c) ==
    /\ call[c] = "new" /\ ~Busy /\ Patchable(c)
    /\ prepared' = [prepared EXCEPT ![c] =
                       [original |-> file, updated |-> Replaced(file, Patch[c])]]
    /\ Goto(c, "previewed")
    /\ UNCHANGED <<file, patch, applied, edits>>

\* Any check of _prepare_patch or _resolve_file fails, those on the path and
\* on sizes included; the client rejects the proposal.
PreviewFails(c) ==
    /\ call[c] = "new" /\ ~Busy
    /\ Goto(c, "failed")
    /\ UNCHANGED <<file, prepared, patch, applied, edits>>

\* The answer to the [y/N] prompt; a rejected patch stays prepared.
Decide(c) ==
    /\ call[c] = "previewed"
    /\ \E pc \in {"approved", "rejected"} : Goto(c, pc)
    /\ UNCHANGED <<file, prepared, patch, applied, edits>>

--------------------------------------------------------------------------------
(***************************************************************************)
(* Executing it                                                            *)
(***************************************************************************)

\* Seeded defect: the current content is not compared.
UnchangedNotChecked(c) == file # Absent

\* current == prepared.original
UnchangedSincePreview(c) == file # Absent /\ file = prepared[c].original

\* Seeded defect: execute prepares the patch again instead of taking the one
\* that was shown.
CheckPreparedAgain(c) ==
    /\ call[c] = "approved" /\ Patchable(c)
    /\ prepared' = [prepared EXCEPT ![c] = Absent]
    /\ patch' = [patch EXCEPT ![c] = [original |-> file, seen |-> edits,
                                      updated |-> Replaced(file, Patch[c])]]
    /\ Goto(c, "checked")
    /\ UNCHANGED <<file, applied, edits>>

\* execute up to the comparison.
Check(c) ==
    /\ call[c] = "approved"
    /\ prepared' = [prepared EXCEPT ![c] = Absent]
    /\ patch' = [patch EXCEPT ![c] = [original |-> prepared[c].original,
                                      updated |-> prepared[c].updated, seen |-> edits]]
    /\ Goto(c, IF UnchangedSincePreview(c) THEN "checked" ELSE "failed")
    /\ UNCHANGED <<file, applied, edits>>

\* NamedTemporaryFile, written and synced, and copymode, which needs the
\* target; nobody else reads the temporary file.
WriteTemp(c) ==
    /\ call[c] = "checked"
    /\ \/ file # Absent /\ Goto(c, "written")
       \/ Goto(c, "failed")
    /\ UNCHANGED <<file, prepared, patch, applied, edits>>

\* Seeded defect: a failure after the replacement is reported as an error.
ReplaceThenFail(c) ==
    /\ call[c] = "written"
    /\ file' = patch[c].updated
    /\ applied' = [applied EXCEPT ![c] = @ + 1]
    /\ \E pc \in {"applied", "failed"} : Goto(c, pc)
    /\ UNCHANGED <<prepared, patch, edits>>

\* os.replace
ReplaceTarget(c) ==
    /\ call[c] = "written"
    /\ \/ /\ file' = patch[c].updated
          /\ applied' = [applied EXCEPT ![c] = @ + 1]
          /\ Goto(c, "applied")
       \/ Goto(c, "failed") /\ UNCHANGED <<file, applied>>
    /\ UNCHANGED <<prepared, patch, edits>>

\* The result is returned to the client.
ReportSuccess(c) ==
    /\ call[c] = "applied" /\ Goto(c, "succeeded")
    /\ UNCHANGED <<file, prepared, patch, applied, edits>>

--------------------------------------------------------------------------------

\* The user's editor saves or deletes the file (external).
Edit ==
    /\ edits < MaxEdits /\ edits' = edits + 1
    /\ file' \in Contents \cup {Absent}
    /\ UNCHANGED <<prepared, patch, call, applied>>

\* The client process dies (external); prepared patches die with it.
Die(c) ==
    /\ call[c] \in InProgress
    /\ Goto(c, "dead")
    /\ prepared' = [d \in Calls |-> Absent]
    /\ UNCHANGED <<file, patch, applied, edits>>

CallStep(c) == \/ Preview(c) \/ PreviewFails(c) \/ Decide(c) \/ Check(c)
               \/ WriteTemp(c) \/ ReplaceTarget(c) \/ ReportSuccess(c) \/ Die(c)

Next == Edit \/ \E c \in Calls : CallStep(c)

Spec == Init /\ [][Next]_vars

--------------------------------------------------------------------------------
(***************************************************************************)
(* Properties                                                              *)
(***************************************************************************)

\* The variables hold values of their types.
TypeOK ==
    /\ file = Absent \/ file \in Seq(STRING)
    /\ prepared \in [Calls -> PreparedPatch \cup {Absent}]
    /\ patch \in [Calls -> {Absent} \cup
                     [original : Seq(STRING), updated : Seq(STRING), seen : 0 .. MaxEdits]]
    /\ call \in [Calls -> CallPC]
    /\ applied \in [Calls -> 0 .. 1]
    /\ edits \in 0 .. MaxEdits
    /\ \A c \in Calls : call[c] \in {"previewed", "approved"} => prepared[c] # Absent

\* What the client submits to the audit is what happened to the file: a
\* success was applied exactly once, a failed or rejected call not at all,
\* whichever system call fails.
ReportIsTrue ==
    \A c \in Calls : /\ call[c] = "succeeded" => applied[c] = 1
                     /\ call[c] \in {"failed", "rejected"} => applied[c] = 0

\* docs/agent-architecture.md: a file changed between preview and execution
\* is not overwritten.  The file replaced is the one previewed, unless it was
\* saved again in the moment between execute's comparison and os.replace.
PreviewedFileOnly ==
    [][\A c \in Calls : applied'[c] # applied[c] /\ file # patch[c].original
          => edits > patch[c].seen]_vars

--------------------------------------------------------------------------------
(***************************************************************************)
(* The promise                                                             *)
(***************************************************************************)

\* The calls between execute's comparison and os.replace.
InWindow(c) == call[c] \in {"checked", "written"}

\* The change a call will make: prepared until execute takes it over.
Change == [c \in Calls |->
    IF call[c] \in {"previewed", "approved"} THEN prepared[c]
    ELSE IF InWindow(c) THEN [original |-> patch[c].original, updated |-> patch[c].updated]
    ELSE Absent]

Verdict == [c \in Calls |->
    IF call[c] = "previewed" THEN "shown"
    ELSE IF call[c] = "approved" \/ InWindow(c) THEN "approved"
    ELSE IF call[c] = "succeeded" THEN "reported"
    ELSE IF call[c] \in {"rejected", "failed"} THEN "refused"
    ELSE IF call[c] = "dead" THEN "lost"
    ELSE call[c]]

Overtaken == {c \in Calls : InWindow(c) /\ edits > patch[c].seen}

\* The changes _prepare_patch accepts.
Proposals(c, content) ==
    IF Occurrences(content, Patch[c].old) = 1
    THEN {Replaced(content, Patch[c])} \ {content} ELSE {}

Approved == INSTANCE ApprovedPatch
    WITH change <- Change, verdict <- Verdict, overtaken <- Overtaken, Shows <- Proposals

\* The preview, the prompt, the comparison, the temporary file and os.replace
\* behave as if an approved change were applied in one step: it is the change
\* that was shown, whatever the editor, the prompt and failing system calls do
\* in between (FilePatchExecutor).
ImplementsApprovedPatch == Approved!Spec

================================================================================
