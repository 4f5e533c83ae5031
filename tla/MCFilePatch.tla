------------------------------- MODULE MCFilePatch -------------------------------
(***************************************************************************)
(* FilePatch with two calls on one file: the second undoes the first.      *)
(***************************************************************************)
EXTENDS FilePatch

MCCalls == {"fix", "undo"}

MCPatch == [c \in MCCalls |-> IF c = "fix" THEN [old |-> "a", new |-> "b"]
                                           ELSE [old |-> "b", new |-> "a"]]

\* All files of at most two words, one of them unknown to the calls.
MCContents == UNION {[1 .. n -> {"a", "b", "x"}] : n \in 0 .. 2}

================================================================================
