---------------------------- MODULE MCMemoryRunStore ----------------------------
(***************************************************************************)
(* MemoryRunStore on the instance of MCAgentApi.                           *)
(***************************************************************************)
EXTENDS MemoryRunStore, TLC

MCTools == {"git.status", "file.patch"}

MCRegisteredRisk == [t \in MCTools |-> IF t = "file.patch" THEN "write" ELSE "read"]

MCCall(name, risk, path) ==
    [name |-> name, risk |-> risk, workspace |-> "", path |-> path]

\* An allowed read, a gated write, and a write that is denied for its path or
\* for the risk it claims.
MCCallRequests ==
    {MCCall("git.status", "read", "absent"),
     MCCall("file.patch", "write", "relative"),
     MCCall("file.patch", "write", "escaping"),
     MCCall("file.patch", "read", "relative")}

Symmetry == Permutations(CallIds) \cup Permutations(Requests) \cup Permutations(RunIds)

================================================================================
