----------------------------- MODULE FilePatchProofs -----------------------------
(***************************************************************************)
(* Proofs about FilePatch for every number of calls, contents and edits.   *)
(***************************************************************************)
EXTENDS FilePatch, TLAPS

\* The client handles one call at a time.
OneInProgress ==
    \A c, d \in Calls : call[c] \in InProgress /\ call[d] \in InProgress => c = d

\* The target is replaced when a call is applied, and by nothing else.
AppliedOnce ==
    \A c \in Calls : /\ call[c] \in {"applied", "succeeded"} => applied[c] = 1
                     /\ call[c] \notin {"applied", "succeeded", "dead"} => applied[c] = 0

\* Until its replacement the checked file is the previewed one, or the editor
\* has saved since the check.
CheckedIsPreviewed ==
    \A c \in Calls : call[c] \in {"checked", "written"} =>
        /\ patch[c].updated \in Seq(STRING)
        /\ patch[c].seen \in Nat /\ patch[c].seen <= edits
        /\ file = patch[c].original \/ edits > patch[c].seen

PatchInv == TypeOK /\ OneInProgress /\ AppliedOnce /\ CheckedIsPreviewed

\* Every initial file satisfies the invariant.
LEMMA PatchStarts == Init => PatchInv
  BY PatchAssumption
     DEF Init, PatchInv, TypeOK, OneInProgress, AppliedOnce, CheckedIsPreviewed, CallPC,
         InProgress

\* replace keeps a content a content.
LEMMA ReplacedTypes ==
    ASSUME NEW content \in Seq(STRING), NEW c \in Calls
    PROVE  Replaced(content, Patch[c]) \in Seq(STRING)
  <1>1. Patch[c].old \in STRING /\ Patch[c].new \in STRING
    BY PatchAssumption
  <1>2. Replaced(content, Patch[c]) \in [1 .. Len(content) -> STRING]
    BY <1>1 DEF Replaced
  <1>3. Len(content) \in Nat
    OBVIOUS
  <1> QED
    BY <1>2, <1>3

\* One call moves on: from another step, or while no other call is handled.
LEMMA GotoMoves ==
    ASSUME PatchInv, NEW c \in Calls, NEW pc \in CallPC, Goto(c, pc),
           pc \in InProgress => call[c] \in InProgress \/ ~Busy
    PROVE  /\ call' \in [Calls -> CallPC]
           /\ call'[c] = pc
           /\ \A d \in Calls \ {c} : call'[d] = call[d]
           /\ OneInProgress'
  <1>1. /\ call' \in [Calls -> CallPC]
        /\ call'[c] = pc
        /\ \A d \in Calls \ {c} : call'[d] = call[d]
    BY DEF Goto, PatchInv, TypeOK
  <1>2. OneInProgress'
    BY <1>1 DEF OneInProgress, PatchInv, Busy
  <1> QED
    BY <1>1, <1>2

\* A handled call is the only one.
LEMMA OthersNotInProgress ==
    ASSUME PatchInv, NEW c \in Calls, call[c] \in InProgress \/ ~Busy
    PROVE  \A d \in Calls \ {c} : call[d] \notin InProgress
  BY DEF PatchInv, OneInProgress, Busy

\* The steps of a call before its replacement and after it.
LEMMA HandlingKeeps ==
    ASSUME PatchInv, NEW c \in Calls,
           \/ Preview(c) \/ PreviewFails(c) \/ Decide(c) \/ WriteTemp(c)
           \/ ReportSuccess(c) \/ Die(c)
    PROVE  PatchInv'
  <1> USE DEF PatchInv
  <1>1. UNCHANGED <<file, patch, applied, edits>>
    BY DEF Preview, PreviewFails, Decide, WriteTemp, ReportSuccess, Die
  <1>2. PICK pc \in {"previewed", "rejected", "approved", "written", "succeeded",
                     "failed", "dead"} : Goto(c, pc)
    BY DEF Preview, PreviewFails, Decide, WriteTemp, ReportSuccess, Die
  <1>3. pc \in CallPC
    BY DEF CallPC
  <1>4. /\ pc \in InProgress => call[c] \in InProgress \/ ~Busy
        /\ call[c] \in InProgress \/ ~Busy
    BY DEF Preview, PreviewFails, Decide, WriteTemp, ReportSuccess, Die, InProgress
  <1>5. /\ call' \in [Calls -> CallPC]
        /\ call'[c] = pc
        /\ \A d \in Calls \ {c} : call'[d] = call[d]
        /\ OneInProgress'
    BY <1>2, <1>3, <1>4, GotoMoves
  <1>6. \A d \in Calls \ {c} : call'[d] \notin InProgress
    BY <1>4, <1>5, OthersNotInProgress
  <1>7. prepared' \in [Calls -> PreparedPatch \cup {Absent}]
    <2>1. CASE Preview(c)
      <3>1. file \in Seq(STRING)
        BY <2>1 DEF Preview, Patchable, TypeOK
      <3>2. [original |-> file, updated |-> Replaced(file, Patch[c])] \in PreparedPatch
        BY <3>1, ReplacedTypes DEF PreparedPatch
      <3> QED
        BY <2>1, <3>2 DEF Preview, TypeOK
    <2>2. CASE ~Preview(c)
      BY <2>2 DEF PreviewFails, Decide, WriteTemp, ReportSuccess, Die, TypeOK
    <2> QED
      BY <2>1, <2>2
  <1>8. pc \in {"previewed", "approved"} => prepared'[c] # Absent
    <2>1. CASE Preview(c)
      <3>1. prepared'[c] = [original |-> file, updated |-> Replaced(file, Patch[c])]
        BY <2>1 DEF Preview, TypeOK
      <3>2. file \in Seq(STRING)
        BY <2>1 DEF Preview, Patchable, TypeOK
      <3> QED
        BY <3>1, <3>2, ReplacedTypes, AbsentAssumption DEF PreparedPatch
    <2>2. CASE Decide(c)
      BY <2>2 DEF Decide, TypeOK
    <2>3. CASE ~Preview(c) /\ ~Decide(c)
      BY <2>3, <1>5 DEF PreviewFails, WriteTemp, ReportSuccess, Die, Goto, TypeOK
    <2> QED
      BY <2>1, <2>2, <2>3
  <1>9. TypeOK'
    BY <1>1, <1>5, <1>6, <1>7, <1>8 DEF TypeOK, InProgress
  <1>10. AppliedOnce'
    <2>1. pc = "succeeded" => call[c] = "applied"
      BY <1>5 DEF Preview, PreviewFails, Decide, WriteTemp, ReportSuccess, Die, Goto, TypeOK
    <2>2. pc \notin {"succeeded", "dead"} => call[c] \notin {"applied", "succeeded", "dead"}
      BY <1>5 DEF Preview, PreviewFails, Decide, WriteTemp, ReportSuccess, Die, Goto, TypeOK
    <2> QED
      BY <2>1, <2>2, <1>1, <1>5 DEF AppliedOnce
  <1>11. CheckedIsPreviewed'
    <2>1. pc = "written" => call[c] = "checked"
      BY <1>5 DEF Preview, PreviewFails, Decide, WriteTemp, ReportSuccess, Die, Goto, TypeOK
    <2> QED
      BY <2>1, <1>1, <1>5 DEF CheckedIsPreviewed
  <1> QED
    BY <1>5, <1>9, <1>10, <1>11

\* execute compares the file with the prepared patch.
LEMMA CheckKeeps ==
    ASSUME PatchInv, NEW c \in Calls, Check(c)
    PROVE  PatchInv'
  <1> USE DEF PatchInv
  <1>1. PICK pc \in {"checked", "failed"} :
           Goto(c, pc) /\ (pc = "checked" => UnchangedSincePreview(c))
    BY DEF Check
  <1>2. call[c] \in InProgress /\ call[c] = "approved" /\ pc \in CallPC
    BY DEF Check, InProgress, CallPC
  <1>3. /\ call' \in [Calls -> CallPC]
        /\ call'[c] = pc
        /\ \A d \in Calls \ {c} : call'[d] = call[d]
        /\ OneInProgress'
    BY <1>1, <1>2, GotoMoves
  <1>4. \A d \in Calls \ {c} : call'[d] \notin InProgress
    BY <1>2, <1>3, OthersNotInProgress
  <1>5. prepared[c] \in PreparedPatch
    BY <1>2 DEF TypeOK
  <1>6. /\ UNCHANGED <<file, applied, edits>>
        /\ prepared' \in [Calls -> PreparedPatch \cup {Absent}]
    BY DEF Check, TypeOK
  <1>10. patch' \in [Calls -> {Absent} \cup
                      [original : Seq(STRING), updated : Seq(STRING), seen : 0 .. MaxEdits]]
    BY <1>5 DEF Check, TypeOK, PreparedPatch
  <1>7. TypeOK'
    BY <1>3, <1>4, <1>6, <1>10 DEF TypeOK, InProgress
  <1>8. AppliedOnce'
    BY <1>2, <1>3, <1>6 DEF AppliedOnce
  <1>9. CheckedIsPreviewed'
    <2> SUFFICES ASSUME pc = "checked"
                 PROVE  /\ patch'[c].updated \in Seq(STRING)
                        /\ patch'[c].seen \in Nat /\ patch'[c].seen <= edits
                        /\ file = patch'[c].original \/ edits > patch'[c].seen
      BY <1>3, <1>4, <1>6 DEF CheckedIsPreviewed, InProgress
    <2>1. edits \in Nat
      BY PatchAssumption DEF TypeOK
    <2>2. file = prepared[c].original
      BY <1>1 DEF UnchangedSincePreview
    <2>3. patch'[c] = [original |-> prepared[c].original,
                       updated |-> prepared[c].updated, seen |-> edits]
      BY DEF Check, TypeOK
    <2> QED
      BY <2>1, <2>2, <2>3, <1>5 DEF PreparedPatch
  <1> QED
    BY <1>3, <1>7, <1>8, <1>9

\* os.replace replaces the previewed file, or one the editor has saved since.
LEMMA ReplaceKeeps ==
    ASSUME PatchInv, NEW c \in Calls, ReplaceTarget(c)
    PROVE  /\ PatchInv'
           /\ \A d \in Calls : applied'[d] # applied[d] /\ file # patch[d].original
                                  => edits > patch[d].seen
  <1> USE DEF PatchInv
  <1>1. call[c] = "written" /\ call[c] \in InProgress
    BY DEF ReplaceTarget, InProgress
  <1>2. PICK pc \in {"applied", "failed"} :
           /\ Goto(c, pc)
           /\ pc = "applied" => /\ file' = patch[c].updated
                                /\ applied' = [applied EXCEPT ![c] = @ + 1]
           /\ pc = "failed" => UNCHANGED <<file, applied>>
    BY DEF ReplaceTarget
  <1>3. UNCHANGED <<prepared, patch, edits>>
    BY DEF ReplaceTarget
  <1>4. /\ call' \in [Calls -> CallPC]
        /\ call'[c] = pc
        /\ \A d \in Calls \ {c} : call'[d] = call[d]
        /\ OneInProgress'
    BY <1>1, <1>2, GotoMoves DEF CallPC
  <1>5. \A d \in Calls \ {c} : call[d] \notin InProgress
    BY <1>1, OthersNotInProgress
  <1>6. applied[c] = 0 /\ patch[c].updated \in Seq(STRING)
    BY <1>1 DEF AppliedOnce, CheckedIsPreviewed
  <1>7. /\ applied' \in [Calls -> 0 .. 1]
        /\ applied'[c] = IF pc = "applied" THEN 1 ELSE 0
        /\ \A d \in Calls \ {c} : applied'[d] = applied[d]
    BY <1>2, <1>6 DEF TypeOK
  <1>8. TypeOK'
    BY <1>2, <1>3, <1>4, <1>5, <1>6, <1>7 DEF TypeOK, InProgress
  <1>9. AppliedOnce'
    BY <1>4, <1>7 DEF AppliedOnce
  <1>10. CheckedIsPreviewed'
    BY <1>3, <1>4, <1>5 DEF CheckedIsPreviewed, InProgress
  <1>11. file = patch[c].original \/ edits > patch[c].seen
    BY <1>1 DEF CheckedIsPreviewed
  <1> QED
    BY <1>4, <1>7, <1>8, <1>9, <1>10, <1>11

\* A save of the editor is counted.
LEMMA EditKeeps ==
    ASSUME PatchInv, Edit
    PROVE  PatchInv'
  <1> USE DEF PatchInv
  <1>1. /\ edits \in Nat /\ edits' = edits + 1 /\ edits' \in 0 .. MaxEdits
        /\ UNCHANGED <<prepared, patch, call, applied>>
    BY PatchAssumption DEF Edit, TypeOK
  <1>2. file' = Absent \/ file' \in Seq(STRING)
    BY PatchAssumption DEF Edit
  <1>3. TypeOK'
    BY <1>1, <1>2 DEF TypeOK
  <1>4. OneInProgress' /\ AppliedOnce'
    BY <1>1 DEF OneInProgress, AppliedOnce
  <1>5. CheckedIsPreviewed'
    BY <1>1 DEF CheckedIsPreviewed
  <1> QED
    BY <1>3, <1>4, <1>5

\* The invariant is inductive.
LEMMA PatchNext == PatchInv /\ [Next]_vars => PatchInv'
  <1> SUFFICES ASSUME PatchInv, [Next]_vars PROVE PatchInv'
    OBVIOUS
  <1>1. CASE UNCHANGED vars
    BY <1>1 DEF vars, PatchInv, TypeOK, OneInProgress, AppliedOnce, CheckedIsPreviewed
  <1>2. CASE Next
    BY <1>2, HandlingKeeps, CheckKeeps, ReplaceKeeps, EditKeeps DEF Next, CallStep
  <1> QED
    BY <1>1, <1>2

--------------------------------------------------------------------------------
(***************************************************************************)
(* The refinement of ApprovedPatch                                         *)
(***************************************************************************)

\* A step of one call moves nothing of the others, none of which is between
\* comparison and replacement.
LEMMA OneCallMoves ==
    ASSUME PatchInv, NEW c \in Calls, NEW pc \in CallPC, Goto(c, pc),
           call[c] \in InProgress \/ ~Busy,
           \A d \in Calls \ {c} : patch'[d] = patch[d]
    PROVE  /\ Change' = [Change EXCEPT ![c] = Change'[c]]
           /\ Verdict' = [Verdict EXCEPT ![c] = Verdict'[c]]
           /\ call'[c] = pc
           /\ Overtaken \subseteq {c} /\ Overtaken' \subseteq {c}
  <1>1. /\ call'[c] = pc
        /\ \A d \in Calls \ {c} : call'[d] = call[d]
    BY DEF Goto, PatchInv, TypeOK
  <1>2. \A d \in Calls \ {c} : call[d] \notin InProgress
    BY OthersNotInProgress
  <1>3. \A d \in Calls \ {c} : Change'[d] = Change[d] /\ Verdict'[d] = Verdict[d]
    BY <1>1, <1>2 DEF Change, Verdict, InWindow, InProgress
  <1>4. /\ Change = [d \in Calls |-> Change[d]] /\ Change' = [d \in Calls |-> Change'[d]]
        /\ Verdict = [d \in Calls |-> Verdict[d]] /\ Verdict' = [d \in Calls |-> Verdict'[d]]
    BY DEF Change, Verdict
  <1>5. Overtaken \subseteq {c} /\ Overtaken' \subseteq {c}
    BY <1>1, <1>2 DEF Overtaken, InWindow, InProgress
  <1> HIDE DEF Change, Verdict
  <1> QED
    BY <1>1, <1>3, <1>4, <1>5

\* A step that ends a call without touching the file.
LEMMA ClosingCloses ==
    ASSUME PatchInv, NEW c \in Calls, NEW pc \in {"rejected", "failed", "dead"},
           Goto(c, pc), call[c] \in InProgress \/ ~Busy,
           \A d \in Calls \ {c} : patch'[d] = patch[d]
    PROVE  Approved!Closes(c, IF pc = "dead" THEN "lost" ELSE "refused")
  <1>1. pc \in CallPC
    BY DEF CallPC
  <1>2. /\ Change' = [Change EXCEPT ![c] = Change'[c]]
        /\ Verdict' = [Verdict EXCEPT ![c] = Verdict'[c]]
        /\ call'[c] = pc
        /\ Overtaken \subseteq {c} /\ Overtaken' \subseteq {c}
    BY <1>1, OneCallMoves
  <1>3. /\ Change'[c] = Absent /\ c \notin Overtaken'
        /\ Verdict'[c] = IF pc = "dead" THEN "lost" ELSE "refused"
    BY <1>2 DEF Change, Verdict, Overtaken, InWindow
  <1>4. Overtaken' = Overtaken \ {c}
    BY <1>2, <1>3
  <1> HIDE DEF Change, Verdict, Overtaken
  <1> QED
    BY <1>2, <1>3, <1>4 DEF Approved!Closes

\* A call that is rejected or fails is refused.
LEMMA ClosingRefuses ==
    ASSUME PatchInv, NEW c \in Calls, NEW pc \in {"rejected", "failed"}, Goto(c, pc),
           call[c] \in {"new", "previewed", "approved", "checked", "written"},
           call[c] = "new" => ~Busy,
           file' = file, \A d \in Calls \ {c} : patch'[d] = patch[d]
    PROVE  Approved!Next
  <1>1. call[c] \in InProgress \/ ~Busy
    BY DEF InProgress
  <1>2. Approved!Closes(c, IF pc = "dead" THEN "lost" ELSE "refused")
    BY <1>1, ClosingCloses
  <1>3. Verdict[c] \in {"new", "shown", "approved"}
    BY DEF Verdict, InWindow
  <1> HIDE DEF Verdict
  <1>4. Approved!Refuse(c)
    BY <1>2, <1>3 DEF Approved!Refuse
  <1> QED
    BY <1>4 DEF Approved!Next

\* A call that dies with the client is lost.
LEMMA DyingLoses ==
    ASSUME PatchInv, NEW c \in Calls, Die(c)
    PROVE  Approved!Next
  <1>1. call[c] \in InProgress /\ Goto(c, "dead") /\ UNCHANGED <<file, patch, applied, edits>>
    BY DEF Die
  <1>2. Approved!Closes(c, IF "dead" = "dead" THEN "lost" ELSE "refused")
    BY <1>1, ClosingCloses
  <1>3. Verdict[c] \in {"shown", "approved", "applied"}
    BY <1>1 DEF Verdict, InWindow, InProgress
  <1> HIDE DEF Verdict
  <1>4. Approved!Lose(c)
    BY <1>1, <1>2, <1>3 DEF Approved!Lose
  <1> QED
    BY <1>4 DEF Approved!Next

\* Preparing a patch shows a change of the file as it is.
LEMMA PreviewShows ==
    ASSUME PatchInv, NEW c \in Calls, Preview(c)
    PROVE  Approved!Next
  <1> DEFINE shown == [original |-> file, updated |-> Replaced(file, Patch[c])]
  <1>1. /\ call[c] = "new" /\ ~Busy /\ Patchable(c) /\ Goto(c, "previewed")
        /\ UNCHANGED <<file, patch, applied, edits>>
    BY DEF Preview
  <1>2. prepared'[c] = shown
    BY DEF Preview, PatchInv, TypeOK
  <1>3. "previewed" \in CallPC
    BY DEF CallPC
  <1>4. /\ Change' = [Change EXCEPT ![c] = Change'[c]]
        /\ Verdict' = [Verdict EXCEPT ![c] = Verdict'[c]]
        /\ call'[c] = "previewed"
        /\ Overtaken \subseteq {c} /\ Overtaken' \subseteq {c}
    BY <1>1, <1>3, OneCallMoves
  <1>5. /\ Change'[c] = shown /\ Verdict'[c] = "shown" /\ Verdict[c] = "new"
        /\ c \notin Overtaken /\ c \notin Overtaken'
    BY <1>1, <1>2, <1>4 DEF Change, Verdict, Overtaken, InWindow
  <1>6. Replaced(file, Patch[c]) \in Proposals(c, file)
    BY <1>1 DEF Proposals, Patchable
  <1>7. file # Absent
    BY <1>1 DEF Patchable
  <1> HIDE DEF Change, Verdict, Overtaken
  <1>8. Approved!Show(c)
    BY <1>1, <1>4, <1>5, <1>6, <1>7 DEF Approved!Show
  <1> QED
    BY <1>8 DEF Approved!Next

\* The answer to the prompt approves or refuses.
LEMMA DecideApproves ==
    ASSUME PatchInv, NEW c \in Calls, Decide(c)
    PROVE  Approved!Next
  <1>1. call[c] = "previewed" /\ UNCHANGED <<file, prepared, patch, applied, edits>>
    BY DEF Decide
  <1>2. CASE Goto(c, "approved")
    <2>1. "approved" \in CallPC /\ call[c] \in InProgress
      BY <1>1 DEF CallPC, InProgress
    <2>2. /\ Change' = [Change EXCEPT ![c] = Change'[c]]
          /\ Verdict' = [Verdict EXCEPT ![c] = Verdict'[c]]
          /\ call'[c] = "approved"
          /\ Overtaken \subseteq {c} /\ Overtaken' \subseteq {c}
      BY <1>1, <1>2, <2>1, OneCallMoves
    <2>3. /\ Change'[c] = Change[c] /\ Verdict'[c] = "approved" /\ Verdict[c] = "shown"
          /\ c \notin Overtaken /\ c \notin Overtaken'
      BY <1>1, <2>2 DEF Change, Verdict, Overtaken, InWindow
    <2>4. Change = [d \in Calls |-> Change[d]]
      BY DEF Change
    <2> HIDE DEF Change, Verdict, Overtaken
    <2>5. Approved!Approve(c)
      BY <1>1, <2>2, <2>3, <2>4 DEF Approved!Approve
    <2> QED
      BY <2>5 DEF Approved!Next
  <1>3. CASE Goto(c, "rejected")
    BY <1>1, <1>3, ClosingRefuses
  <1> QED
    BY <1>2, <1>3 DEF Decide

\* Taking the patch over, the comparison and the temporary file are no step of
\* the promise.
LEMMA HandlingStutters ==
    ASSUME PatchInv, NEW c \in Calls, Check(c) \/ WriteTemp(c)
    PROVE  Approved!Next \/ UNCHANGED Approved!vars
  <1>1. /\ call[c] \in {"approved", "checked"} /\ call[c] \in InProgress
        /\ UNCHANGED <<file, applied, edits>>
        /\ \A d \in Calls \ {c} : patch'[d] = patch[d]
    BY DEF Check, WriteTemp, InProgress, PatchInv, TypeOK
  <1>2. CASE Goto(c, "failed")
    BY <1>1, <1>2, ClosingRefuses
  <1>3. ASSUME NEW pc \in {"checked", "written"}, Goto(c, pc)
        PROVE  UNCHANGED Approved!vars
    <2>1. pc \in CallPC
      BY DEF CallPC
    <2>2. /\ Change' = [Change EXCEPT ![c] = Change'[c]]
          /\ Verdict' = [Verdict EXCEPT ![c] = Verdict'[c]]
          /\ call'[c] = pc
          /\ Overtaken \subseteq {c} /\ Overtaken' \subseteq {c}
      BY <1>1, <1>3, <2>1, OneCallMoves
    <2>3. Verdict'[c] = Verdict[c]
      BY <1>1, <2>2 DEF Verdict, InWindow
    <2>4. Change'[c] = Change[c] /\ (c \in Overtaken' <=> c \in Overtaken)
      <3>1. CASE Check(c)
        <4>1. /\ call[c] = "approved"
              /\ patch'[c] = [original |-> prepared[c].original,
                              updated |-> prepared[c].updated, seen |-> edits]
          BY <3>1 DEF Check, PatchInv, TypeOK
        <4>2. prepared[c] \in PreparedPatch
          BY <4>1 DEF PatchInv, TypeOK
        <4>3. prepared[c] = [original |-> prepared[c].original,
                             updated |-> prepared[c].updated]
          BY <4>2 DEF PreparedPatch
        <4>4. Change'[c] = Change[c]
          BY <2>2, <4>1, <4>3 DEF Change, InWindow
        <4>5. edits \in Nat /\ edits' = edits
          BY <1>1, PatchAssumption DEF PatchInv, TypeOK
        <4>6. c \notin Overtaken /\ c \notin Overtaken'
          BY <4>1, <4>5 DEF Overtaken, InWindow
        <4> QED
          BY <4>4, <4>6
      <3>2. CASE WriteTemp(c)
        BY <1>1, <2>2, <3>2 DEF WriteTemp, Change, Overtaken, InWindow
      <3> QED
        BY <3>1, <3>2
    <2>5. /\ Change = [d \in Calls |-> Change[d]]
          /\ Verdict = [d \in Calls |-> Verdict[d]]
      BY DEF Change, Verdict
    <2> HIDE DEF Change, Verdict, Overtaken
    <2>6. Change' = Change /\ Verdict' = Verdict /\ Overtaken' = Overtaken
      BY <2>2, <2>3, <2>4, <2>5
    <2> QED
      BY <1>1, <2>6 DEF Approved!vars
  <1>4. Goto(c, "failed") \/ Goto(c, "checked") \/ Goto(c, "written")
    BY DEF Check, WriteTemp
  <1> QED
    BY <1>2, <1>3, <1>4

\* os.replace applies the change that was shown, to the file it was shown for
\* or to one saved since the comparison.
LEMMA ReplacingApplies ==
    ASSUME PatchInv, NEW c \in Calls, ReplaceTarget(c)
    PROVE  Approved!Next
  <1>1. /\ call[c] = "written" /\ call[c] \in InProgress
        /\ UNCHANGED <<prepared, patch, edits>>
    BY DEF ReplaceTarget, InProgress
  <1>2. CASE Goto(c, "failed") /\ UNCHANGED <<file, applied>>
    BY <1>1, <1>2, ClosingRefuses
  <1>3. CASE Goto(c, "applied") /\ file' = patch[c].updated
    <2>1. "applied" \in CallPC
      BY DEF CallPC
    <2>2. /\ Change' = [Change EXCEPT ![c] = Change'[c]]
          /\ Verdict' = [Verdict EXCEPT ![c] = Verdict'[c]]
          /\ call'[c] = "applied"
          /\ Overtaken \subseteq {c} /\ Overtaken' \subseteq {c}
      BY <1>1, <1>3, <2>1, OneCallMoves
    <2>3. /\ Change[c] = [original |-> patch[c].original, updated |-> patch[c].updated]
          /\ Change'[c] = Absent
      BY <1>1, <2>2 DEF Change, InWindow
    <2>4. Verdict[c] = "approved" /\ Verdict'[c] = "applied"
      BY <1>1, <2>2 DEF Verdict, InWindow
    <2>5. file = patch[c].original \/ c \in Overtaken
      BY <1>1 DEF PatchInv, CheckedIsPreviewed, Overtaken, InWindow
    <2>6. c \notin Overtaken'
      BY <2>2 DEF Overtaken, InWindow
    <2> HIDE DEF Change, Verdict, Overtaken
    <2>7. Approved!Closes(c, "applied")
      BY <2>2, <2>3, <2>4, <2>6 DEF Approved!Closes
    <2>8. Approved!Apply(c)
      BY <1>3, <2>3, <2>4, <2>5, <2>7 DEF Approved!Apply
    <2> QED
      BY <2>8 DEF Approved!Next
  <1> QED
    BY <1>2, <1>3 DEF ReplaceTarget

\* The result reaches the client.
LEMMA SuccessReports ==
    ASSUME PatchInv, NEW c \in Calls, ReportSuccess(c)
    PROVE  Approved!Next
  <1>1. /\ call[c] = "applied" /\ Goto(c, "succeeded")
        /\ UNCHANGED <<file, prepared, patch, applied, edits>>
    BY DEF ReportSuccess
  <1>2. "succeeded" \in CallPC /\ call[c] \in InProgress
    BY <1>1 DEF CallPC, InProgress
  <1>3. /\ Change' = [Change EXCEPT ![c] = Change'[c]]
        /\ Verdict' = [Verdict EXCEPT ![c] = Verdict'[c]]
        /\ call'[c] = "succeeded"
        /\ Overtaken \subseteq {c} /\ Overtaken' \subseteq {c}
    BY <1>1, <1>2, OneCallMoves
  <1>4. /\ Change'[c] = Change[c] /\ Verdict'[c] = "reported" /\ Verdict[c] = "applied"
        /\ c \notin Overtaken /\ c \notin Overtaken'
    BY <1>1, <1>3 DEF Change, Verdict, Overtaken, InWindow
  <1>5. Change = [d \in Calls |-> Change[d]]
    BY DEF Change
  <1> HIDE DEF Change, Verdict, Overtaken
  <1>6. Approved!Report(c)
    BY <1>1, <1>3, <1>4, <1>5 DEF Approved!Report
  <1> QED
    BY <1>6 DEF Approved!Next

\* A save is one of the promise; calls past their comparison do not notice it.
LEMMA EditSaves ==
    ASSUME PatchInv, Edit
    PROVE  Approved!Next
  <1>1. /\ file' \in Contents \cup {Absent} /\ edits' = edits + 1
        /\ UNCHANGED <<prepared, patch, call, applied>>
    BY DEF Edit
  <1>2. Change' = Change /\ Verdict' = Verdict
    BY <1>1 DEF Change, Verdict, InWindow
  <1>3. /\ Overtaken \subseteq Overtaken'
        /\ Overtaken' \subseteq {c \in Calls : Verdict[c] = "approved"}
    <2>1. \A c \in Calls : InWindow(c) => patch[c].seen \in Nat /\ edits \in Nat
      BY PatchAssumption DEF PatchInv, TypeOK, CheckedIsPreviewed, InWindow
    <2> QED
      BY <1>1, <2>1 DEF Overtaken, Verdict, InWindow
  <1> HIDE DEF Change, Verdict, Overtaken
  <1>4. \E late \in SUBSET {c \in Calls : Verdict[c] = "approved"} :
           Overtaken' = Overtaken \cup late
    <2>1. Overtaken' = Overtaken \cup Overtaken'
      BY <1>3
    <2> QED
      BY <1>3, <2>1
  <1>5. Approved!Save
    BY <1>1, <1>2, <1>4 DEF Approved!Save
  <1> QED
    BY <1>5 DEF Approved!Next

--------------------------------------------------------------------------------
(***************************************************************************)
(* Theorems                                                                *)
(***************************************************************************)

\* The invariant of the client's write calls.
THEOREM PatchInvariance == Spec => []PatchInv
  <1> QED
    BY PatchStarts, PatchNext, PTL DEF Spec

\* Type correctness: a previewed or approved call finds its prepared patch.
THEOREM PatchTypeCorrect == Spec => []TypeOK
  <1>1. PatchInv => TypeOK
    BY DEF PatchInv
  <1> QED
    BY <1>1, PatchInvariance, PTL

\* _atomic_write_utf8: the result a call reports is what happened to the file.
THEOREM ReportSafety == Spec => []ReportIsTrue
  <1>1. PatchInv => ReportIsTrue
    BY DEF PatchInv, AppliedOnce, ReportIsTrue
  <1> QED
    BY <1>1, PatchInvariance, PTL

\* FilePatchExecutor.execute: a file saved after its preview is overwritten
\* only when it was saved after the comparison as well.
THEOREM PreviewSafety == Spec => PreviewedFileOnly
  <1>1. ASSUME PatchInv, [Next]_vars
        PROVE  \A c \in Calls : applied'[c] # applied[c] /\ file # patch[c].original
                                   => edits > patch[c].seen
    <2>1. ASSUME NEW c \in Calls, ReplaceTarget(c)
          PROVE  \A d \in Calls : applied'[d] # applied[d] /\ file # patch[d].original
                                     => edits > patch[d].seen
      BY <2>1, <1>1, ReplaceKeeps
    <2>2. CASE applied' = applied
      BY <2>2
    <2>3. applied' = applied \/ \E c \in Calls : ReplaceTarget(c)
      BY <1>1 DEF Next, CallStep, Edit, Preview, PreviewFails, Decide, Check, WriteTemp,
                  ReportSuccess, Die, vars
    <2> QED
      BY <2>1, <2>2, <2>3
  <1> QED
    BY <1>1, PatchInvariance, PTL DEF Spec, PreviewedFileOnly

\* FilePatchExecutor: the change that was shown and approved is applied as a
\* single step, whatever the editor saves, whichever system call fails and
\* whenever the client dies.
THEOREM PatchIsAtomic == Spec => ImplementsApprovedPatch
  <1>1. Init => Approved!Init
    BY DEF Init, Approved!Init, Change, Verdict, Overtaken, InWindow
  <1>2. PatchInv /\ [Next]_vars => [Approved!Next]_(Approved!vars)
    <2> SUFFICES ASSUME PatchInv, [Next]_vars
                 PROVE  Approved!Next \/ UNCHANGED Approved!vars
      OBVIOUS
    <2>1. CASE UNCHANGED vars
      BY <2>1 DEF vars, Approved!vars, Change, Verdict, Overtaken, InWindow
    <2>2. CASE Edit
      BY <2>2, EditSaves
    <2>3. ASSUME NEW c \in Calls, PreviewFails(c) PROVE Approved!Next
      BY <2>3, ClosingRefuses DEF PreviewFails
    <2> QED
      BY <2>1, <2>2, <2>3, PreviewShows, DyingLoses, DecideApproves, HandlingStutters,
         ReplacingApplies, SuccessReports DEF Next, CallStep
  <1> QED
    BY <1>1, <1>2, PatchInvariance, PTL DEF Spec, ImplementsApprovedPatch, Approved!Spec

\* The editor does not save between a comparison and its os.replace.
EditorIsQuiet == Edit => \A c \in Calls : ~InWindow(c)

\* "current == prepared.original" suffices while the editor is quiet in that
\* moment: whenever the target is about to be replaced it is the file that was
\* previewed, so that nobody's save is lost.
THEOREM QuietEditorSafety ==
    Spec /\ [][EditorIsQuiet]_vars
       => [](\A c \in Calls : InWindow(c) => file = patch[c].original)
  <1> DEFINE Exact == \A c \in Calls : InWindow(c) => file = patch[c].original
  <1>1. Init => Exact
    BY DEF Init, InWindow
  <1>2. PatchInv /\ Exact /\ [Next]_vars /\ [EditorIsQuiet]_vars => Exact'
    <2> SUFFICES ASSUME PatchInv, Exact, [Next]_vars, [EditorIsQuiet]_vars,
                        NEW c \in Calls, InWindow(c)'
                 PROVE  file' = patch'[c].original
      OBVIOUS
    <2>1. CASE UNCHANGED vars
      BY <2>1 DEF vars, InWindow
    <2>2. CASE Edit
      BY <2>2 DEF vars, Edit, EditorIsQuiet, InWindow, PatchInv, TypeOK
    <2>3. ASSUME NEW d \in Calls, CallStep(d) PROVE file' = patch'[c].original
      <3>1. CASE d # c
        <4>1. call'[c] = call[c]
          BY <2>3, <3>1 DEF CallStep, Preview, PreviewFails, Decide, Check, WriteTemp,
                            ReplaceTarget, ReportSuccess, Die, Goto, PatchInv, TypeOK
        <4>2. call[c] \in InProgress /\ call[d] \notin InProgress
          BY <3>1, <4>1 DEF InWindow, InProgress, PatchInv, OneInProgress
        <4>3. call[d] = "new" /\ Busy
          BY <2>3, <4>2 DEF CallStep, Preview, PreviewFails, Decide, Check, WriteTemp,
                            ReplaceTarget, ReportSuccess, Die, InProgress, Busy
        <4>4. ~CallStep(d)
          BY <4>3 DEF CallStep, Preview, PreviewFails, Decide, Check, WriteTemp,
                      ReplaceTarget, ReportSuccess, Die, InProgress
        <4> QED
          BY <2>3, <4>4
      <3>2. CASE d = c /\ Check(c)
        <4>1. call'[c] = "checked" => file = prepared[c].original
          BY <3>2 DEF Check, Goto, UnchangedSincePreview, PatchInv, TypeOK
        <4>2. patch'[c].original = prepared[c].original /\ file' = file
          BY <3>2 DEF Check, PatchInv, TypeOK
        <4>3. call'[c] = "checked"
          BY <3>2 DEF Check, Goto, InWindow, PatchInv, TypeOK
        <4> QED
          BY <4>1, <4>2, <4>3
      <3>3. CASE d = c /\ ~Check(c)
        BY <2>3, <3>3 DEF CallStep, Preview, PreviewFails, Decide, WriteTemp,
                          ReplaceTarget, ReportSuccess, Die, Goto, InWindow, PatchInv, TypeOK
      <3> QED
        BY <3>1, <3>2, <3>3
    <2> QED
      BY <2>1, <2>2, <2>3 DEF Next
  <1> QED
    BY <1>1, <1>2, PatchInvariance, PTL DEF Spec

================================================================================
