------------------------------- MODULE MCAgentApi -------------------------------
(***************************************************************************)
(* AgentApi on a small instance: one read and one write tool of the real   *)
(* registry, one authorised and one unknown workspace.                     *)
(***************************************************************************)
EXTENDS AgentApi, TLC

MCTools == {"git.status", "file.patch"}

MCRegisteredRisk == [t \in MCTools |-> IF t = "file.patch" THEN "write" ELSE "read"]

MCCall(name, risk, workspace, path) ==
    [name |-> name, risk |-> risk, workspace |-> workspace, path |-> path]

\* An allowed read, a gated write, and one call for every kind of denial.
MCCallRequests ==
    {MCCall("git.status", "read", "", "absent"),
     MCCall("file.patch", "write", "", "relative"),
     MCCall("file.patch", "write", "", "escaping"),
     MCCall("file.patch", "read", "", "relative"),
     MCCall("git.status", "read", "other", "absent"),
     MCCall("shell.run", "write", "", "absent")}

\* One call that is allowed and one that is gated.
MCCoreCalls ==
    {MCCall("git.status", "read", "", "absent"),
     MCCall("file.patch", "write", "", "relative")}

\* What the client's commands and the planner ask for: a read, a write and a
\* write the policy denies.
MCClientCalls == MCCoreCalls \cup {MCCall("file.patch", "write", "", "escaping")}

Symmetry == Permutations(CallIds) \cup Permutations(Requests) \cup Permutations(RunIds)

================================================================================
